---- MODULE Spec2Model ----
(***************************************************************************)
(* X2J: tabular vehicle-service records -> nested JSON run document.      *)
(*                                                                         *)
(* Conventions of the model                                                *)
(*   - a Python dict is a TLA+ function with string keys; a missing key    *)
(*     is a key outside DOMAIN; d.get(k, dflt) is Get(d, k, dflt);         *)
(*   - a Python list is a sequence;                                        *)
(*   - None is the string NONE where the other values are strings, and     *)
(*     the empty sequence << >> where the value is optional (<<v>> = v);   *)
(*   - a datetime is [d, s, u]: day (Excel serial day number), second of   *)
(*     the day, microsecond; an ISO text is [iso, d, s, u, z]: whether it  *)
(*     parses, what it denotes, and whether it ends in 'Z';                *)
(*   - a call that raises is [ok |-> FALSE, val |-> <exception name>], a   *)
(*     call that returns is [ok |-> TRUE, val |-> <value>].                *)
(***************************************************************************)
EXTENDS Integers, Sequences, FiniteSets, TLC

VARIABLES
    pc,       \* "idle" | "returned" | "raised": where the caller stands
    op,       \* the function last called
    args,     \* its arguments (a dict of the inputs drawn)
    ret,      \* its return value (or the exception it raised)
    heap,     \* object graph: address -> object (dicts/lists holding addresses)
    tplAddr,  \* address of the shared template object
    docAddr,  \* address of the document returned by the last mapping call
    calls,    \* number of mapping calls made on the shared template
    files,    \* the file system: path -> directory or file with its text
    steps     \* the functions main has called so far in its current run

vars == <<pc, op, args, ret, heap, tplAddr, docAddr, calls, files, steps>>

-----------------------------------------------------------------------------
(* Generic helpers                                                         *)

\* the one element of a set of one: The({e(x) : x \in {v}}) is e of the
\* value v, computed once
The(S) == CHOOSE x \in S : TRUE

NONE == "<None>"

Get(d, k, dflt) == IF k \in DOMAIN d THEN d[k] ELSE dflt

\* Python truthiness of a string-or-None value
Truthy(v) == v /= NONE /\ v /= ""

Ok(v) == [ok |-> TRUE, val |-> v]
Raise(e) == [ok |-> FALSE, val |-> e]

\* optional values
Nothing == << >>
Some(v) == <<v>>
IsSome(o) == Len(o) = 1
TheVal(o) == o[1]

RECURSIVE SeqToSet(_)
SeqToSet(s) == IF s = << >> THEN {} ELSE {Head(s)} \cup SeqToSet(Tail(s))

RECURSIVE Concat(_)
\* the concatenation of a sequence of sequences
Concat(ss) == IF ss = << >> THEN << >> ELSE Head(ss) \o Concat(Tail(ss))

-----------------------------------------------------------------------------
(* datetime arithmetic and text conversions (src/utils.py)                 *)

Dt(d, s, u) == [d |-> d, s |-> s, u |-> u]

DtLess(a, b) ==
    \/ a.d < b.d
    \/ a.d = b.d /\ a.s < b.s
    \/ a.d = b.d /\ a.s = b.s /\ a.u < b.u

\* dt + timedelta(seconds=n)
AddSeconds(dt, n) ==
    LET t == dt.s + n
    IN  [d |-> dt.d + (t \div 86400), s |-> t % 86400, u |-> dt.u]

\* dt + timedelta(days=n)
AddDays(dt, n) == [dt EXCEPT !.d = @ + n]

\* datetime.combine(day, datetime.max.time()): 23:59:59.999999
CombineMax(day) == Dt(day, 86399, 999999)

\* datetime.combine(day, datetime.min.time()): 00:00:00
CombineMin(day) == Dt(day, 0, 0)

\* EXCEL_EPOCH = datetime(1899, 12, 30): day 0 of the serial numbering
EXCEL_EPOCH == Dt(0, 0, 0)

\* An Excel serial number is modelled in half-days (h = 2 * serial), so that a
\* fractional serial such as 45645.5 is representable.
excel_number_to_datetime(h) == Dt(h \div 2, (h % 2) * 43200, 0)

\* Date-time texts: an ISO text denotes d, s, u; any other text is kept raw.
IsoText(d, s, u, z) ==
    [iso |-> TRUE, raw |-> "", d |-> d, s |-> s, u |-> u, z |-> z]
RawText(x) ==
    [iso |-> FALSE, raw |-> x, d |-> 0, s |-> 0, u |-> 0, z |-> FALSE]
EmptyText == RawText("")
BadText == RawText("not-a-date")

\* tagged run-parameter values: None, a datetime, or a text
PNone == [t |-> "none"]
PDt(dt) == [t |-> "dt", v |-> dt]
PStr(x) == [t |-> "str", v |-> x]

\* parse_iso_datetime: a datetime is returned as is; a text has its trailing
\* 'Z' stripped and goes through datetime.fromisoformat, which raises on a
\* text that is no ISO date-time.
parse_iso_datetime(value) ==
    IF value.t = "dt" THEN Ok(value.v)
    ELSE IF value.t = "str" /\ value.v.iso
         THEN Ok(Dt(value.v.d, value.v.s, value.v.u))
         ELSE Raise("ValueError")

\* isoformat_z: microseconds dropped, second precision, trailing 'Z'
isoformat_z(dt) == IsoText(dt.d, dt.s, 0, TRUE)

\* jour_dep_bounds: min and max of the jourDep cells of the simulation file
\* that float() accepts, EXCEL_EPOCH twice when there is none.
\* A cell is <<h>> (a number, in half-days) or << >> (text float() rejects,
\* such as the empty cell).
JourVals(simu) == {TheVal(simu[i]) : i \in {j \in DOMAIN simu : IsSome(simu[j])}}

SetMin(S) == CHOOSE x \in S : \A y \in S : x <= y
SetMax(S) == CHOOSE x \in S : \A y \in S : x >= y

jour_dep_bounds(simu) ==
    IF JourVals(simu) = {}
    THEN <<EXCEL_EPOCH, EXCEL_EPOCH>>
    ELSE <<excel_number_to_datetime(SetMin(JourVals(simu))),
           excel_number_to_datetime(SetMax(JourVals(simu)))>>

-----------------------------------------------------------------------------
(* Texts built by formatting: a text is the sequence of its parts, "" is   *)
(* the empty sequence.                                                     *)

Str(x) == IF x = "" THEN << >> ELSE IF x = NONE THEN <<"None">> ELSE <<x>>

\* str.strip() on the texts the model draws
Strip(x) ==
    CASE x = " " -> ""
      [] x = " 1 " -> "1"
      [] x = " P " -> "P"
      [] x = " E " -> "E"
      [] OTHER -> x

\* record cells: a text (v), an integral number (n, with v its text), None,
\* the float nan, a datetime (dt), the ISO text of a datetime (dt), the text
\* of an Excel serial number (n, in half-days)
Cell(t, v, n, dt) == [t |-> t, v |-> v, n |-> n, dt |-> dt]
CStr(x) == Cell("str", x, 0, Dt(0, 0, 0))
CNum(n) == Cell("num", ToString(n), n, Dt(0, 0, 0))
CNone == Cell("none", "None", 0, Dt(0, 0, 0))
CNaN == Cell("nan", "nan", 0, Dt(0, 0, 0))
CDt(dt) == Cell("dt", "", 0, dt)
CIso(dt) == Cell("iso", "", 0, dt)
CSerial(h) == Cell("serial", "", h, Dt(0, 0, 0))

NEXT_COL == "Heure Prochain Service"
SOC_COL == "soc_retour"
MARGE_COL == "MargeSécurité"

\* the texts drawn that int() and float() accept, and their value
NumericTexts == {"10", "20", "-10", "1", " 1 ", "2", "80"}
TextInt(x) ==
    CASE x = "10" -> 10 [] x = "20" -> 20 [] x = "-10" -> -10 [] x = "1" -> 1
      [] x = " 1 " -> 1 [] x = "2" -> 2 [] x = "80" -> 80 [] OTHER -> 0

\* int(cell)
IntOf(c) ==
    CASE c.t = "num" -> Ok(c.n)
      [] c.t = "str" /\ c.v \in NumericTexts -> Ok(TextInt(c.v))
      [] c.t = "serial" /\ c.n % 2 = 0 -> Ok(c.n \div 2)
      [] c.t \in {"none", "dt"} -> Raise("TypeError")
      [] OTHER -> Raise("ValueError")

\* cell or 0
CellTruthy(c) ==
    ~(c.t = "none" \/ (c.t = "str" /\ c.v = "") \/ (c.t = "num" /\ c.n = 0))

\* str(cell)
StrOf(c) == c.v

-----------------------------------------------------------------------------
(* The document template (src/mapper.py DEFAULT_TEMPLATE)                  *)

TemplateVehicule ==
    [id |-> "", capaciteBatterie |-> 0, idPrise |-> << >>, libelle |-> << >>,
     modeBoost |-> 0,
     typeChargeur |-> <<[modeleChargeur |-> "TypeChargeur_valeur"]>>,
     typePrise |-> "CCS COMBO2", profilBatterie |-> << >>,
     soc |-> 0, socCible |-> 0, dureeService |-> 0,
     finService |-> EmptyText, debutService |-> EmptyText]

TemplateSource ==
    [id |-> "", libelle |-> "",
     transformateurs |-> <<
        [id |-> "", libelle |-> "", etat |-> "",
         chargeurs |-> <<
            [id |-> "", libelle |-> "", etat |-> "",
             typeChargeur |-> "TypeChargeur_valeur",
             prises |-> <<[id |-> "", libelle |-> "", etat |-> "",
                           typePrise |-> ""]>>]>>]>>]

DEFAULT_TEMPLATE ==
    [idRun |-> "01234567891011",
     choix_optim |-> "",
     synthese |-> << >>,
     rapport |-> [url |-> "http://example.com",
                  resultUrl |-> "http://example.com/result"],
     configuration |->
        [activationRendement |-> "false",
         axeOptimDegrade |-> << >>,
         diminutionSOC |-> 0,
         pasDeTemps |-> 0,
         maximumExecTemps |-> 0,
         debutOptim |-> IsoText(36526, 0, 0, FALSE),
         finOptim |-> IsoText(54789, 3600, 0, FALSE)],
     sources |-> <<TemplateSource>>,
     vehicules |-> <<TemplateVehicule>>]

-----------------------------------------------------------------------------
(* Infrastructure description (src/utils.py load_infrastructure)           *)

\* The state of the infrastructure file handed to a mapping call:
\*   path    : FALSE when infrastructure_path is None
\*   ext     : "json" | "yaml"
\*   content : "unreadable" (missing or undecodable file), "invalid" (no
\*             JSON/YAML), "null", "emptylist", "list", "scalar", "map"
\*   v       : the mapping, when content = "map"
NoInfra == [path |-> FALSE, ext |-> "json", content |-> "null", v |-> << >>]
InfraFile(ext, content, v) ==
    [path |-> TRUE, ext |-> ext, content |-> content, v |-> v]

\* loaded values: None, a mapping, or another JSON value (list, scalar)
LNone == [t |-> "none", v |-> << >>]
LMap(v) == [t |-> "map", v |-> v]
LOther == [t |-> "other", v |-> << >>]

\* load_infrastructure: read_text and the parser raise; YAML turns every falsy
\* document (null, empty list) into {}; JSON returns whatever the text holds.
load_infrastructure(f) ==
    CASE f.content = "unreadable" -> Raise("OSError")
      [] f.content = "invalid" -> Raise("ValueError")
      [] f.content = "map" -> Ok(LMap(f.v))
      [] f.content \in {"null", "emptylist"} ->
            IF f.ext = "yaml" THEN Ok(LMap(<< >>))
            ELSE IF f.content = "null" THEN Ok(LNone) ELSE Ok(LOther)
      [] OTHER -> Ok(LOther)

\* the try/except around load_infrastructure in map_record and map_records:
\* every exception of the load leaves infra = None
LoadInfra(f) ==
    IF ~f.path THEN LNone
    ELSE IF load_infrastructure(f).ok THEN load_infrastructure(f).val
         ELSE LNone

\* infra.get("sources", []) on the loaded value; a list or scalar has no .get
InfraSources(infra) ==
    IF infra.t = "map" THEN Ok(Get(infra.v, "sources", << >>))
    ELSE Raise("AttributeError")

\* every charger with at least one plug, over all sources and transformers
AllTransformers(sources) ==
    Concat([i \in 1..Len(sources) |-> Get(sources[i], "transformateurs", << >>)])

AllChargers(sources) ==
    LET tr == AllTransformers(sources)
    IN  Concat([i \in 1..Len(tr) |-> Get(tr[i], "chargeurs", << >>)])

HasPlug(ch) == Get(ch, "prises", << >>) /= << >>

PluggedChargers(sources) == SelectSeq(AllChargers(sources), HasPlug)

\* the outcomes of random.choice(chargers), random.choice(charger["prises"]):
\* c indexes the plugged chargers, p the plugs of the charger chosen
NoDraw == [c |-> 0, p |-> 0]
Draws(f) ==
    IF LoadInfra(f).t /= "map" THEN {NoDraw}
    ELSE LET chs == PluggedChargers(Get(LoadInfra(f).v, "sources", << >>))
         IN  IF chs = << >> THEN {NoDraw}
             ELSE UNION {{[c |-> c, p |-> p] : p \in 1..Len(chs[c].prises)} :
                            c \in 1..Len(chs)}

-----------------------------------------------------------------------------
(* map_record (src/mapper.py)                                              *)

\* configuration.debutOptim: the requested start, replaced by the end of the
\* floor day when its date is before (min jourDep - 3 days).date(), then
\* rounded to the nearest second and formatted.
ClampStart(debut_dt, min_jour) ==
    LET bound == AddDays(min_jour, -3).d
    IN  IF debut_dt.d < bound THEN CombineMax(bound) ELSE debut_dt

RoundSecond(dt) ==
    LET up == IF dt.u >= 500000 THEN AddSeconds(dt, 1) ELSE dt
    IN  [up EXCEPT !.u = 0]

DebutOptim(start_dt, min_jour) ==
    LET p == parse_iso_datetime(start_dt)
    IN  IF ~p.ok THEN p
        ELSE Ok(isoformat_z(RoundSecond(ClampStart(p.val, min_jour))))

\* configuration.finOptim: the requested end, replaced by the start of the
\* ceiling day when its date is after (max jourDep + 3 days).date().
ClampEnd(fin_dt, max_jour) ==
    LET bound == AddDays(max_jour, 3).d
    IN  IF fin_dt.d > bound THEN CombineMin(bound) ELSE fin_dt

FinOptim(end_dt, max_jour) ==
    LET p == parse_iso_datetime(end_dt)
    IN  IF ~p.ok THEN p ELSE Ok(isoformat_z(ClampEnd(p.val, max_jour)))

\* the configuration block; P holds the keyword arguments of the call
Configuration(template, P) ==
    LET c0 == template.configuration
        c1 == IF P.activation_rendement /= NONE
              THEN [c0 EXCEPT !.activationRendement = P.activation_rendement]
              ELSE c0
        c2 == [c1 EXCEPT !.axeOptimDegrade =
                  IF IsSome(P.axe_optim_degrade)
                  THEN TheVal(P.axe_optim_degrade) ELSE <<1, 2, 3>>]
        c3 == IF IsSome(P.diminution_soc)
              THEN [c2 EXCEPT !.diminutionSOC = TheVal(P.diminution_soc)]
              ELSE c2
        c4 == IF IsSome(P.pas_de_temps)
              THEN [c3 EXCEPT !.pasDeTemps = TheVal(P.pas_de_temps)]
              ELSE c3
        c5 == [c4 EXCEPT !.maximumExecTemps = P.maximum_exec_temps]
        jb == jour_dep_bounds(P.simu)
        deb == DebutOptim(P.start_dt, jb[1])
        fin == FinOptim(P.end_dt, jb[2])
        c6 == IF P.start_dt.t /= "none"
              THEN [c5 EXCEPT !.debutOptim = deb.val] ELSE c5
        c7 == IF P.end_dt.t /= "none"
              THEN [c6 EXCEPT !.finOptim = fin.val] ELSE c6
    IN  IF P.start_dt.t /= "none" /\ ~deb.ok THEN deb
        ELSE IF P.end_dt.t /= "none" /\ ~fin.ok THEN fin
        ELSE Ok(c7)

\* new_id = str(record.get("newIdVeh", "")).strip() or None
NewId(record) ==
    LET x == Strip(StrOf(Get(record, "newIdVeh", CStr(""))))
    IN  IF x = "" THEN NONE ELSE x

\* tveh = (record.get("tVeh") or "").strip(): a truthy cell that is no text
\* has no strip()
TVeh(record) ==
    LET c == Get(record, "tVeh", CNone)
    IN  CASE c.t = "none" -> Ok("")
          [] c.t = "str" -> Ok(Strip(c.v))
          [] c.t = "num" /\ c.n = 0 -> Ok("")
          [] OTHER -> Raise("AttributeError")

\* f"TR1_CH_{new_id}_P1"
SyntheticPlugId(new_id) == <<"TR1_CH_", new_id, "_P1">>

\* faulty variant: the plug is drawn from the first plugged charger, not from the
\* charger drawn
AssignPlug_FirstCharger(vehicule, infra, new_id, draw) ==
    LET v0 == [vehicule EXCEPT !.idPrise = << >>]
    IN  IF infra.t /= "none"
        THEN LET chargers == PluggedChargers(InfraSources(infra).val)
             IN  IF chargers = << >> THEN v0
                 ELSE LET charger == chargers[draw.c]
                          prise == Get(chargers[1], "prises", << >>)[1]
                          modele == Get(charger, "typeChargeur", NONE)
                          v1 == [v0 EXCEPT !.idPrise = Str(Get(prise, "id", ""))]
                          v2 == IF Truthy(modele)
                                THEN [v1 EXCEPT
                                        !.typeChargeur[1].modeleChargeur = modele]
                                ELSE v1
                      IN  [v2 EXCEPT
                             !.typePrise = Get(prise, "typePrise", v2.typePrise)]
        ELSE IF new_id /= NONE
             THEN [v0 EXCEPT !.idPrise = SyntheticPlugId(new_id)]
             ELSE v0

\* faulty variant: without an infrastructure no plug id is synthesized (and
\* with one, the plug is the first of the first plugged charger)
AssignPlug_NoSynthetic(vehicule, infra, new_id, draw) ==
    IF infra.t /= "none"
    THEN AssignPlug_FirstCharger(vehicule, infra, new_id, [draw EXCEPT !.p = 1])
    ELSE [vehicule EXCEPT !.idPrise = << >>]

\* vehicule.idPrise, typeChargeur and typePrise
AssignPlug(vehicule, infra, new_id, draw) ==
    LET v0 == [vehicule EXCEPT !.idPrise = << >>]
    IN  IF infra.t /= "none"
        THEN LET chargers == PluggedChargers(InfraSources(infra).val)
             IN  IF chargers = << >> THEN v0
                 ELSE LET charger == chargers[draw.c]
                          prise == Get(charger, "prises", << >>)[draw.p]
                          modele == Get(charger, "typeChargeur", NONE)
                          v1 == [v0 EXCEPT !.idPrise = Str(Get(prise, "id", ""))]
                          v2 == IF Truthy(modele)
                                THEN [v1 EXCEPT
                                        !.typeChargeur[1].modeleChargeur = modele]
                                ELSE v1
                      IN  [v2 EXCEPT
                             !.typePrise = Get(prise, "typePrise", v2.typePrise)]
        ELSE IF new_id /= NONE
             THEN [v0 EXCEPT !.idPrise = SyntheticPlugId(new_id)]
             ELSE v0

\* vehicule["profilBatterie"]: the profile, its y scaled by power / max(y)
\* when the model has a power and max(y) is not 0
ProfilBatterie(P, tveh) ==
    LET profile == P.profile
        key == <<P.projection, tveh>>
        max_y == SetMax({profile[i].y : i \in 1..Len(profile)})
    IN  IF key \in DOMAIN P.powers /\ profile /= << >> /\ max_y /= 0
        THEN [i \in 1..Len(profile) |->
                 [x |-> profile[i].x,
                  y |-> (P.powers[key] * profile[i].y) \div max_y]]
        ELSE profile

\* faulty variant: a returned SOC that int() refuses gives way to the
\* pre-existing SOC
Soc_SkipsNonNumeric(record) ==
    LET c == Get(record, SOC_COL, CNone)
        d == Get(record, "soc", CNum(0))
    IN  IF IntOf(c).ok THEN IntOf(c).val
        ELSE IF IntOf(d).ok THEN IntOf(d).val ELSE 0

\* vehicule["soc"] = int(record.get("soc_retour", record.get("soc", 0))), 0
\* when int() raises
Soc(record) ==
    LET c == Get(record, SOC_COL, Get(record, "soc", CNum(0)))
    IN  IF IntOf(c).ok THEN IntOf(c).val ELSE 0

\* vehicule["socCible"] = int(record.get("socCible", soc_cible)),
\* int(soc_cible) when int() raises
SocCible(record, P) ==
    LET c == Get(record, "socCible", CNum(P.soc_cible))
    IN  IF IntOf(c).ok THEN IntOf(c).val ELSE P.soc_cible

\* _dt(value): a datetime, an ISO text, or a number taken as an Excel serial;
\* None for None, "", nan and any other text
DtOf(c) ==
    CASE c.t \in {"dt", "iso"} -> Some(c.dt)
      [] c.t = "serial" -> Some(excel_number_to_datetime(c.n))
      [] c.t = "num" -> Some(excel_number_to_datetime(2 * c.n))
      [] c.t = "str" /\ c.v \in NumericTexts ->
            Some(excel_number_to_datetime(2 * TextInt(c.v)))
      [] OTHER -> Nothing

\* float(marge_sec) for marge_sec = record.get("MargeSécurité") or 0, in
\* minutes; timedelta refuses nan
MargeSec(record) ==
    LET c == Get(record, MARGE_COL, CNone)
    IN  IF ~CellTruthy(c) THEN Ok(0)
        ELSE IF c.t \in {"none", "dt"} THEN Raise("TypeError")
        ELSE IF c.t = "nan" THEN Raise("ValueError")
        ELSE IntOf(c)

\* temps_chargement or 0, temps_dechargement or 0: None counts as 0
OrZero(o) == IF IsSome(o) THEN TheVal(o) ELSE 0

\* faulty variant: the arrival is written as the cell gives it, unformatted
FinService_Unformatted(record, P) ==
    IF IsSome(DtOf(Get(record, "hFin", CNone)))
    THEN RawText("unformatted") ELSE EmptyText

\* vehicule["finService"]: hFin + temps_dechargement minutes, "" without hFin
FinService(record, P) ==
    LET h_fin == DtOf(Get(record, "hFin", CNone))
    IN  IF IsSome(h_fin)
        THEN isoformat_z(AddSeconds(TheVal(h_fin), 60 * OrZero(P.temps_dechargement)))
        ELSE EmptyText

\* faulty variant: the run's marge_securite is taken for the record's margin
DebutService_RunMargin(record, P, configuration, vehicule) ==
    LET next_service == DtOf(Get(record, NEXT_COL, CNone))
        marge_sec == MargeSec(record)
        fin == parse_iso_datetime(PStr(configuration.finOptim))
    IN  IF IsSome(next_service)
        THEN IF ~marge_sec.ok THEN marge_sec
             ELSE Ok(isoformat_z(AddSeconds(TheVal(next_service),
                        -60 * (OrZero(P.temps_chargement) + P.marge_securite))))
        ELSE IF P.default_debut_service.t /= "none"
        THEN IF ~fin.ok THEN fin
             ELSE Ok(isoformat_z(AddSeconds(AddDays(fin.val, 1), 43200)))
        ELSE Ok(vehicule.debutService)

\* faulty variant: the caller's default_debut_service is used as given
DebutService_CallerDefault(record, P, configuration, vehicule) ==
    LET next_service == DtOf(Get(record, NEXT_COL, CNone))
        marge_sec == MargeSec(record)
        ds_val == parse_iso_datetime(P.default_debut_service)
    IN  IF IsSome(next_service)
        THEN IF ~marge_sec.ok THEN marge_sec
             ELSE Ok(isoformat_z(AddSeconds(TheVal(next_service),
                        -60 * (OrZero(P.temps_chargement) + marge_sec.val))))
        ELSE IF P.default_debut_service.t /= "none"
        THEN IF ~ds_val.ok THEN Ok(P.default_debut_service.v)
             ELSE Ok(isoformat_z(ds_val.val))
        ELSE Ok(vehicule.debutService)

\* vehicule["debutService"]: the next service less the loading time and the
\* record's margin; without a next service, finOptim + 1.5 days whenever
\* default_debut_service is not None (its value is overwritten before it is
\* read); the template's value otherwise
DebutService(record, P, configuration, vehicule) ==
    LET next_service == DtOf(Get(record, NEXT_COL, CNone))
        marge_sec == MargeSec(record)
        fin == parse_iso_datetime(PStr(configuration.finOptim))
    IN  IF IsSome(next_service)
        THEN IF ~marge_sec.ok THEN marge_sec
             ELSE Ok(isoformat_z(AddSeconds(TheVal(next_service),
                        -60 * (OrZero(P.temps_chargement) + marge_sec.val))))
        ELSE IF P.default_debut_service.t /= "none"
        THEN IF ~fin.ok THEN fin
             ELSE Ok(isoformat_z(AddSeconds(AddDays(fin.val, 1), 43200)))
        ELSE Ok(vehicule.debutService)

\* divmod(int(minutes), 60), the two parts of the HH:MM text
HHMM(minutes) == <<minutes \div 60, minutes % 60>>

\* round(conso_value, 2) in hundredths, for a consumption in thousandths
\* (the values drawn have no half to round)
RoundHundredths(x) == (x + 5) \div 10

\* vehicule["libelle"]: the JSON text, as the sequence of its keys and values
Libelle(new_id, vehicule, P, tveh) ==
    << "numeroExploitation", IF new_id = NONE THEN "None" ELSE new_id,
       "debutService", vehicule.debutService,
       "MargeSecurite", HHMM(P.marge_securite),
       "MargePrechauffage", HHMM(P.marge_prechauffage),
       "Conso", RoundHundredths(Get(P.conso, <<P.projection, tveh>>, 0)) >>

\* the vehicle entry
Vehicule(record, template, P, infra, tveh, draw, configuration) ==
    LET veh_template == template.vehicules[1]
        new_id == NewId(record)
        v1 == [veh_template EXCEPT
                 !.capaciteBatterie = Get(P.capacities, <<P.projection, tveh>>, 0)]
        v2 == AssignPlug(v1, infra, new_id, draw)
        v3 == [v2 EXCEPT !.modeBoost = 0,
                         !.profilBatterie = ProfilBatterie(P, tveh),
                         !.soc = Soc(record),
                         !.socCible = SocCible(record, P)]
        dist_val == IntOf(Get(record, "dist", CNone))
        v4 == IF dist_val.ok THEN [v3 EXCEPT !.dureeService = dist_val.val]
              ELSE v3
        v5 == [v4 EXCEPT !.finService = FinService(record, P)]
        Finish(v, d) ==
            LET w6 == [v EXCEPT !.debutService = d.val]
                w7 == IF new_id /= NONE THEN [w6 EXCEPT !.id = new_id] ELSE w6
            IN  The({ [w EXCEPT !.libelle = Libelle(new_id, w, P, tveh)] :
                      w \in {w7} })
    IN  The({ The({ IF ~d.ok THEN d ELSE Ok(Finish(v, d)) :
                    d \in {DebutService(record, P, configuration, v)} }) :
              v \in {v5} })

\* map_record(record, template=template, **P), with the outcome of its random
\* draw; the first statement that raises decides the exception
map_record(record, template, P, draw) ==
    LET infra == LoadInfra(P.infra)
        src == IF infra.t = "none" THEN Ok(<< >>) ELSE InfraSources(infra)
        tveh == TVeh(record)
        Rest(cfg) ==
            The({ IF ~veh.ok THEN veh
                  ELSE Ok([template EXCEPT
                             !.choix_optim = P.choix_optim,
                             !.configuration = cfg.val,
                             !.sources = src.val,
                             !.vehicules = <<veh.val>>]) :
                  veh \in {Vehicule(record, template, P, infra, tveh.val, draw,
                                    cfg.val)} })
    IN  The({ IF ~cfg.ok THEN cfg
              ELSE IF ~src.ok THEN src
              ELSE IF ~tveh.ok THEN tveh
              ELSE Rest(cfg) :
              cfg \in {Configuration(template, P)} })

-----------------------------------------------------------------------------
(* aggregate_results and map_records (src/mapper.py)                       *)

\* d[k] = v on a dict, whether or not it has the key
Put(d, k, v) == [x \in DOMAIN d \cup {k} |-> IF x = k THEN v ELSE d[x]]

\* the chargers an item contributes: those of item.sources[0].transformateurs[0]
ItemChargers(item) ==
    LET src == Get(item, "sources", << >>)
        trans == IF src = << >> THEN << >>
                 ELSE Get(src[1], "transformateurs", << >>)
    IN  IF trans = << >> THEN << >> ELSE Get(trans[1], "chargeurs", << >>)

\* faulty variant: the seen set is never consulted: no deduplication
UniqueById_NoDedup(chs, seen) ==
    SelectSeq(chs, LAMBDA ch : Truthy(Get(ch, "id", NONE)))

RECURSIVE UniqueById(_, _)
\* the chargers with a truthy id that is not in seen, first occurrence kept
UniqueById(chs, seen) ==
    IF chs = << >> THEN << >>
    ELSE LET ch_id == Get(Head(chs), "id", NONE)
         IN  IF Truthy(ch_id) /\ ch_id \notin seen
             THEN <<Head(chs)>> \o UniqueById(Tail(chs), seen \cup {ch_id})
             ELSE UniqueById(Tail(chs), seen)

\* merged["sources"][0]["transformateurs"][0]["chargeurs"] = chargeurs
SetChargers(merged, chargeurs) ==
    LET src == merged["sources"]
    IN  IF "transformateurs" \notin DOMAIN src[1] THEN Raise("KeyError")
        ELSE IF src[1]["transformateurs"] = << >> THEN Raise("IndexError")
        ELSE Ok([merged EXCEPT
                   !["sources"][1]["transformateurs"][1] =
                       Put(@, "chargeurs", chargeurs)])

\* faulty variant: merged["vehicules"] is not emptied before the loop extends it
MergedVehicules_NoReset(results) ==
    Get(results[1], "vehicules", << >>) \o
    Concat([i \in 1..Len(results) |-> Get(results[i], "vehicules", << >>)])

\* merged["vehicules"] = [] extended by every item's vehicules, in order
MergedVehicules(results) ==
    Concat([i \in 1..Len(results) |-> Get(results[i], "vehicules", << >>)])

aggregate_results(results) ==
    IF results = << >> THEN Ok(<< >>)
    ELSE LET vehicules == MergedVehicules(results)
             chargeurs ==
                 UniqueById(Concat([i \in 1..Len(results) |->
                                       ItemChargers(results[i])]), {})
             merged == Put(results[1], "vehicules", vehicules)
         IN  IF Get(merged, "sources", << >>) /= << >>
             THEN SetChargers(merged, chargeurs)
             ELSE Ok(merged)

\* the per-record results of the loop of map_records
Mapped(records, template, P, draws) ==
    [i \in 1..Len(records) |-> map_record(records[i], template, P, draws[i])]

\* faulty variant: a record whose mapping raises is skipped
CollectResults_Skip(rs) ==
    LET RECURSIVE Kept(_)
        Kept(i) == IF i > Len(rs) THEN << >>
                   ELSE (IF rs[i].ok THEN <<rs[i].val>> ELSE << >>) \o Kept(i + 1)
    IN  Ok(Kept(1))

\* what the loop does with them: the first record whose mapping raises ends
\* the call with that exception
CollectResults(rs) ==
    IF \E i \in 1..Len(rs) : ~rs[i].ok
    THEN rs[CHOOSE i \in 1..Len(rs) :
               ~rs[i].ok /\ \A j \in 1..(i - 1) : rs[j].ok]
    ELSE Ok([i \in 1..Len(rs) |-> rs[i].val])

\* faulty variant: the aggregated sources are kept
OverrideSources_Keep(merged, infra) == Ok(merged)

\* the override of the merged sources by the infrastructure's
OverrideSources(merged, infra) ==
    IF infra.t = "none" THEN Ok(merged)
    ELSE IF ~InfraSources(infra).ok THEN InfraSources(infra)
    ELSE Ok(Put(merged, "sources", InfraSources(infra).val))

map_records(records, template, P, draws) ==
    LET infra == LoadInfra(P.infra)
        Merge(results) ==
            The({ IF ~merged.ok THEN merged
                  ELSE OverrideSources(merged.val, infra) :
                  merged \in {aggregate_results(results.val)} })
    IN  The({ The({ IF ~results.ok THEN results ELSE Merge(results) :
                    results \in {CollectResults(rs)} }) :
              rs \in {Mapped(records, template, P, draws)} })

-----------------------------------------------------------------------------
(* validate_optim_dates (src/validator.py)                                 *)

\* faulty variant: a bound equal to the observed one is let through
validate_optim_dates_NonStrict(debut, fin, simu) ==
    LET b == jour_dep_bounds(simu)
        debut_dt == parse_iso_datetime(debut)
        fin_dt == parse_iso_datetime(fin)
    IN  IF ~debut_dt.ok THEN debut_dt
        ELSE IF ~fin_dt.ok THEN fin_dt
        ELSE IF DtLess(b[1], debut_dt.val) THEN Raise("ValueError")
        ELSE IF DtLess(fin_dt.val, b[2]) THEN Raise("ValueError")
        ELSE Ok(NONE)

\* validate_optim_dates(debut, fin, resultat_path=simu): the bounds are read,
\* both values are parsed (a text that is no ISO date-time raises there), then
\* debut_dt >= min_jour raises, then fin_dt <= max_jour raises
validate_optim_dates(debut, fin, simu) ==
    LET b == jour_dep_bounds(simu)
        debut_dt == parse_iso_datetime(debut)
        fin_dt == parse_iso_datetime(fin)
    IN  IF ~debut_dt.ok THEN debut_dt
        ELSE IF ~fin_dt.ok THEN fin_dt
        ELSE IF ~DtLess(debut_dt.val, b[1]) THEN Raise("ValueError")
        ELSE IF ~DtLess(b[2], fin_dt.val) THEN Raise("ValueError")
        ELSE Ok(NONE)

-----------------------------------------------------------------------------
(* Inputs drawn by the mapper calls                                        *)

MaxRecords == 2

\* records: identifier plain, padded, blank or missing; model a text, blank,
\* missing, or a number (a numeric cell read by a typed reader); SOC a
\* number, numeric text, other text, None or nan; distance an integral
\* text, a text with a fractional part, nan or missing
RecordSet ==
    { [newIdVeh |-> CStr("1"), seqVoy |-> CStr("1"), tVeh |-> CStr("P"),
       soc |-> CStr("abc"), dist |-> CStr("12.5")],
      [newIdVeh |-> CStr("2"), seqVoy |-> CStr("1"), tVeh |-> CStr(" P "),
       soc_retour |-> CNum(99), socCible |-> CStr("80"), dist |-> CStr("10"),
       hFin |-> CIso(Dt(45643, 3600, 0))]
         @@ (NEXT_COL :> CSerial(91291)) @@ (MARGE_COL :> CStr("10")),
      [newIdVeh |-> CStr(" 1 "), seqVoy |-> CStr("2"), soc |-> CStr("20"),
       socCible |-> CNaN, dist |-> CNaN, hFin |-> CStr("")]
         @@ (NEXT_COL :> CNaN),
      [newIdVeh |-> CStr(" "), seqVoy |-> CStr("1"), tVeh |-> CStr(""),
       soc_retour |-> CNaN, soc |-> CStr("20"), hFin |-> CSerial(91287)]
         @@ (NEXT_COL :> CDt(Dt(45644, 1800, 0))),
      [seqVoy |-> CStr("3"), tVeh |-> CNum(0), soc_retour |-> CNone,
       soc |-> CNum(50)],
      [newIdVeh |-> CStr("1"), seqVoy |-> CStr("3"), tVeh |-> CStr("P")]
         @@ (NEXT_COL :> CIso(Dt(45644, 0, 0))) @@ (MARGE_COL :> CStr("abc")),
      [newIdVeh |-> CStr("2"), seqVoy |-> CStr("2"), tVeh |-> CNum(7)] }

Plug(id, typePrise) == [id |-> id, typePrise |-> typePrise]
Charger(id, typeChargeur, prises) ==
    [id |-> id, typeChargeur |-> typeChargeur, prises |-> prises]
Transfo(id, chargeurs) == [id |-> id, chargeurs |-> chargeurs]
Source(id, transformateurs) == [id |-> id, transformateurs |-> transformateurs]

\* one charger with one plug (tests/test_infrastructure.py)
InfraOnePlug ==
    [sources |-> <<Source("SRC", <<Transfo("T1",
        <<Charger("C1", "TypeChargeur_valeur",
                  <<Plug("P1", "CCS COMBO2")>>)>>)>>)>>]

\* one charger, one plug, behind a first transformer that has no charger
InfraSecondTransfo ==
    [sources |-> <<Source("SRC", <<[id |-> "T0"],
        Transfo("T1", <<Charger("C9", "Fast", <<Plug("P9", "T2")>>)>>)>>)>>]

\* several chargers: two plugs on the first, a repeated id, a charger with no
\* id and an empty type whose plug has neither id nor type, a charger with no
\* plug
InfraMany ==
    [sources |-> <<Source("SRC", <<Transfo("T1",
        << Charger("C1", "Fast", <<Plug("P1", "CCS COMBO2"), Plug("P2", "T2")>>),
           Charger("C1", "Slow", <<Plug("P3", "")>>),
           [typeChargeur |-> "", prises |-> <<[libelle |-> "bare"]>>],
           Charger("C4", "Slow", << >>) >>)>>)>>]

\* sparse hierarchies
InfraNoSources == [id |-> "empty"]
InfraEmptySources == [sources |-> << >>]
InfraNoTransfoKey == [sources |-> <<[id |-> "SRC"]>>]
InfraEmptyTransfo ==
    [sources |-> << Source("S0", << >>),
                    Source("S1", <<Transfo("T1",
                       <<Charger("C1", "Fast", <<Plug("P1", "T2")>>)>>)>>) >>]
InfraNoChargers == [sources |-> <<Source("SRC", <<[id |-> "T1"]>>)>>]

InfraMaps ==
    { InfraOnePlug, InfraSecondTransfo, InfraMany, InfraNoSources,
      InfraEmptySources, InfraNoTransfoKey, InfraEmptyTransfo, InfraNoChargers }

InfraFiles ==
    { NoInfra,
      InfraFile("json", "unreadable", << >>),
      InfraFile("yaml", "invalid", << >>),
      InfraFile("json", "null", << >>),
      InfraFile("yaml", "null", << >>),
      InfraFile("json", "emptylist", << >>),
      InfraFile("yaml", "emptylist", << >>),
      InfraFile("json", "list", << >>),
      InfraFile("yaml", "scalar", << >>) }
    \cup {InfraFile("json", "map", m) : m \in InfraMaps}

\* jourDep cells of the simulation file: 2024-12-19 and 2024-12-19 12:00 with
\* an empty cell; 2024-12-17 .. 2024-12-20; no parsable cell
SimuSet ==
    { <<Some(91290), Nothing, Some(91291)>>,
      <<Some(91292), Some(91286)>>,
      <<Nothing>> }

StartSet ==
    { PNone,
      PStr(IsoText(45630, 0, 0, FALSE)),
      PStr(IsoText(45639, 43200, 600000, TRUE)),
      PStr(IsoText(45641, 0, 0, FALSE)),
      PDt(Dt(45642, 86399, 500000)),
      PDt(Dt(45643, 3600, 499999)),
      PStr(BadText) }

EndSet ==
    { PNone,
      PStr(IsoText(45660, 0, 0, TRUE)),
      PDt(Dt(45648, 7200, 600000)),
      PStr(IsoText(45646, 0, 0, FALSE)),
      PStr(BadText) }

\* the bounds validate_optim_dates is given: those of the mapper, and values
\* equal to the observed minimum and maximum and one second off them
ValidateStartSet ==
    StartSet \cup { PDt(Dt(45645, 0, 0)),
                    PStr(IsoText(45643, 0, 0, TRUE)),
                    PStr(IsoText(45644, 86399, 0, TRUE)) }

ValidateEndSet ==
    EndSet \cup { PDt(Dt(45645, 43200, 0)),
                  PStr(IsoText(45646, 0, 0, TRUE)),
                  PStr(IsoText(45645, 43201, 0, TRUE)) }

\* default_debut_service: None, the defaults of map_record and of main, a
\* datetime, a text that is no date-time
DefaultDebutSet ==
    { PNone,
      PStr(IsoText(54789, 86399, 0, TRUE)),
      PStr(IsoText(45642, 86399, 0, TRUE)),
      PDt(Dt(45650, 0, 0)),
      PStr(BadText) }

\* the defaults of map_record's keyword arguments
DefaultParams ==
    [choix_optim |-> "",
     activation_rendement |-> "false",
     axe_optim_degrade |-> Nothing,
     diminution_soc |-> Some(5),
     pas_de_temps |-> Nothing,
     maximum_exec_temps |-> 10,
     start_dt |-> PNone,
     end_dt |-> PNone,
     simu |-> <<Some(91290), Nothing, Some(91291)>>,
     infra |-> NoInfra,
     projection |-> 0,
     capacities |-> (<<0, "P">> :> 570) @@ (<<5, "T">> :> 950),
     soc_cible |-> 0,
     temps_chargement |-> Some(30),
     temps_dechargement |-> Some(45),
     marge_securite |-> 15,
     marge_prechauffage |-> 30,
     default_debut_service |-> PStr(IsoText(54789, 86399, 0, TRUE)),
     profile |-> <<[x |-> 0, y |-> 100], [x |-> 50, y |-> 200]>>,
     powers |-> (<<0, "P">> :> 400),
     conso |-> (<<0, "P">> :> 1234)]

\* the keyword arguments main forwards
MainParams ==
    [DefaultParams EXCEPT
        !.choix_optim = "CoutEnergie",
        !.activation_rendement = NONE,
        !.axe_optim_degrade = Some(<<3, 2, 1>>),
        !.diminution_soc = Nothing,
        !.pas_de_temps = Some(15),
        !.soc_cible = 80,
        !.marge_securite = 90,
        !.temps_chargement = Nothing,
        !.temps_dechargement = Nothing,
        !.default_debut_service = PStr(IsoText(45642, 86399, 0, TRUE)),
        !.profile = << >>]

ParamSet ==
    { [b EXCEPT !.start_dt = st, !.end_dt = en, !.simu = si, !.infra = f] :
        b \in {DefaultParams, MainParams}, st \in StartSet, en \in EndSet,
        si \in SimuSet, f \in {NoInfra} }
    \cup
    { [b EXCEPT !.infra = f, !.start_dt = st] :
        b \in {DefaultParams, MainParams}, f \in InfraFiles,
        st \in {PNone, PStr(BadText)} }
    \cup
    { [b EXCEPT !.default_debut_service = ds, !.temps_chargement = tc,
                !.end_dt = en] :
        b \in {DefaultParams, MainParams}, ds \in DefaultDebutSet,
        tc \in {Nothing, Some(0), Some(20)},
        en \in {PNone, PStr(IsoText(45660, 0, 0, TRUE)),
                PStr(IsoText(45646, 0, 0, FALSE))} }

BatchParamSet ==
    { [b EXCEPT !.infra = f] : b \in {DefaultParams, MainParams}, f \in InfraFiles }
    \cup {[MainParams EXCEPT !.default_debut_service = PNone]}

RecordLists == UNION {[1..n -> RecordSet] : n \in 0..MaxRecords}

DrawLists(f, n) == [1..n -> Draws(f)]

-----------------------------------------------------------------------------
(* The mapper as a state machine: a caller at rest calls one function with *)
(* inputs it draws, and stands at its return or its exception.             *)

Init ==
    /\ pc = "idle"
    /\ op = "none"
    /\ args = << >>
    /\ ret = << >>
    /\ heap = << >>
    /\ tplAddr = 0
    /\ docAddr = 0
    /\ calls = 0
    /\ files = << >>
    /\ steps = << >>

Outcome(name, a, r) ==
    /\ pc' = IF r.ok THEN "returned" ELSE "raised"
    /\ op' = name
    /\ args' = a
    /\ ret' = r.val
    /\ UNCHANGED <<heap, tplAddr, docAddr, calls, files, steps>>

MapRecordCall ==
    /\ pc = "idle"
    /\ \E record \in RecordSet, P \in ParamSet :
         \E draw \in Draws(P.infra) :
         \E r \in {map_record(record, DEFAULT_TEMPLATE, P, draw)} :
            Outcome("map_record",
                    [record |-> record, P |-> P, draw |-> draw], r)

MapRecordsCall ==
    /\ pc = "idle"
    /\ \E records \in RecordLists, P \in BatchParamSet :
         \E draws \in DrawLists(P.infra, Len(records)) :
         \E r \in {map_records(records, DEFAULT_TEMPLATE, P, draws)} :
            Outcome("map_records",
                    [records |-> records, P |-> P, draws |-> draws], r)

\* documents as map_record returns them, for direct calls of aggregate_results
DocParams == {[DefaultParams EXCEPT !.infra = f] :
                 f \in {NoInfra} \cup {InfraFile("json", "map", m) : m \in InfraMaps}}
            \cup {[MainParams EXCEPT !.start_dt = PStr(IsoText(45630, 0, 0, FALSE))]}

DocSet ==
    UNION { { map_record(r, DEFAULT_TEMPLATE, P, d).val : d \in Draws(P.infra) } :
              r \in { [newIdVeh |-> CStr("1"), seqVoy |-> CStr("1"), tVeh |-> CStr("P")],
                      [seqVoy |-> CStr("3"), tVeh |-> CNum(0)] },
              P \in DocParams }

MaxDocs == 2

DocLists == UNION {[1..n -> DocSet] : n \in 0..MaxDocs}

AggregateCall ==
    /\ pc = "idle"
    /\ \E results \in DocLists :
       \E r \in {aggregate_results(results)} :
          Outcome("aggregate_results", [results |-> results], r)

ValidateOptimDatesCall ==
    /\ pc = "idle"
    /\ \E debut \in ValidateStartSet, fin \in ValidateEndSet, simu \in SimuSet :
       \E r \in {validate_optim_dates(debut, fin, simu)} :
          Outcome("validate_optim_dates",
                  [debut |-> debut, fin |-> fin, simu |-> simu], r)

Return ==
    /\ pc \in {"returned", "raised"}
    /\ pc' = "idle"
    /\ op' = "none"
    /\ args' = << >>
    /\ ret' = << >>
    /\ UNCHANGED <<heap, tplAddr, docAddr, calls, files, steps>>

Next ==
    \/ MapRecordCall
    \/ MapRecordsCall
    \/ AggregateCall
    \/ ValidateOptimDatesCall
    \/ Return

Spec == Init /\ [][Next]_vars

-----------------------------------------------------------------------------
(* Properties                                                              *)

Returned(name) == op = name /\ pc = "returned"

\* the floor of the start clamp: the date of (min observed jourDep - 3 days)
FloorDay(P) == AddDays(jour_dep_bounds(P.simu)[1], -3).d

\* the requested start, parsed
RequestedStart(P) == parse_iso_datetime(P.start_dt).val

\* dt to the nearest second, >= 500 ms up, as a text with trailing 'Z'
NearestSecondText(dt) ==
    IF dt.u >= 500000
    THEN IF dt.s = 86399 THEN IsoText(dt.d + 1, 0, 0, TRUE)
         ELSE IsoText(dt.d, dt.s + 1, 0, TRUE)
    ELSE IsoText(dt.d, dt.s, 0, TRUE)

\* C2: in map_record, a requested start earlier than the floor day gives
\* debutOptim = the floor day at 23:59:59; a requested start not earlier than
\* the floor gives debutOptim = the requested start to the nearest second.
C2_DebutOptimClamp ==
    (Returned("map_record") /\ args.P.start_dt.t /= "none") =>
        IF DtLess(RequestedStart(args.P), CombineMin(FloorDay(args.P)))
        THEN ret.configuration.debutOptim =
                 IsoText(FloorDay(args.P), 86399, 0, TRUE)
        ELSE ret.configuration.debutOptim =
                 NearestSecondText(RequestedStart(args.P))

CeilingDay(P) == AddDays(jour_dep_bounds(P.simu)[2], 3).d

\* the requested end, parsed
RequestedEnd(P) == parse_iso_datetime(P.end_dt).val

\* C14: in map_record, a requested end whose date is after the ceiling day
\* (max jourDep + 3 days) gives finOptim = the ceiling day at 00:00:00; any
\* other requested end gives finOptim = the requested end, formatted as
\* debutOptim is: to the nearest second, with trailing 'Z'.
C14_FinOptimClamp ==
    (Returned("map_record") /\ args.P.end_dt.t /= "none") =>
        IF RequestedEnd(args.P).d > CeilingDay(args.P)
        THEN ret.configuration.finOptim = IsoText(CeilingDay(args.P), 0, 0, TRUE)
        ELSE ret.configuration.finOptim = NearestSecondText(RequestedEnd(args.P))

\* the next-service timestamp a record carries, if it carries one
NextServiceOf(record) == DtOf(Get(record, NEXT_COL, CNone))

\* the record's own margin in minutes, 0 when it has none
RecordMargin(record) ==
    IF CellTruthy(Get(record, MARGE_COL, CNone))
    THEN IntOf(Get(record, MARGE_COL, CNone)).val ELSE 0

\* dt less a number of minutes, as a text with second precision and 'Z'
MinutesBefore(dt, minutes) ==
    LET t == dt.s - 60 * minutes
    IN  IsoText(dt.d + (t \div 86400), t % 86400, 0, TRUE)

\* C15: in map_record, a record that carries a next-service timestamp T gets
\* debutService = T - (temps_chargement + the record's MargeSecurite)
\* minutes, with second precision and trailing 'Z'; a loading time of None
\* and a record without margin count as 0; marge_securite plays no part.
C15_DebutServiceFromNextService ==
    (Returned("map_record") /\ IsSome(NextServiceOf(args.record))) =>
        ret.vehicules[1].debutService =
            MinutesBefore(TheVal(NextServiceOf(args.record)),
                          OrZero(args.P.temps_chargement)
                          + RecordMargin(args.record))

\* a record with a next service and a margin of its own, mapped with a
\* run-level margin that differs from it
C15_Witness ==
    /\ Returned("map_record")
    /\ IsSome(NextServiceOf(args.record))
    /\ RecordMargin(args.record) > 0
    /\ RecordMargin(args.record) /= args.P.marge_securite
    /\ OrZero(args.P.temps_chargement) > 0

\* a record without next service, mapped with a default_debut_service
FallsBack == Returned("map_record")
             /\ ~IsSome(NextServiceOf(args.record))
             /\ args.P.default_debut_service.t /= "none"

\* the same call with another default_debut_service
WithDefault(a, ds) ==
    map_record(a.record, DEFAULT_TEMPLATE,
               [a.P EXCEPT !.default_debut_service = ds], a.draw)

VehicleOf(a, i) ==
    map_record(a.records[i], DEFAULT_TEMPLATE, a.P, a.draws[i]).val.vehicules[1]

NonVehicleFields(d) ==
    <<d.idRun, d.choix_optim, d.configuration>>

\* C5: aggregating N >= 1 single-vehicle documents, and mapping N >= 1
\* records, returns a document with exactly N vehicle entries, the i-th being
\* the vehicle of the i-th input, and with the idRun, choix_optim and
\* configuration of the first document.
C5_VehiclesInOrder ==
    /\ (Returned("aggregate_results") /\ Len(args.results) >= 1) =>
          /\ Len(ret.vehicules) = Len(args.results)
          /\ \A i \in 1..Len(args.results) :
                ret.vehicules[i] = args.results[i].vehicules[1]
          /\ NonVehicleFields(ret) = NonVehicleFields(args.results[1])
    /\ (Returned("map_records") /\ Len(args.records) >= 1) =>
          /\ Len(ret.vehicules) = Len(args.records)
          /\ \A i \in 1..Len(args.records) :
                ret.vehicules[i] = VehicleOf(args, i)
          /\ NonVehicleFields(ret) =
                NonVehicleFields(map_record(args.records[1], DEFAULT_TEMPLATE,
                                            args.P, args.draws[1]).val)

C5_Witness ==
    /\ Returned("aggregate_results")
    /\ Len(args.results) = 2
    /\ args.results[1].vehicules[1].id /= args.results[2].vehicules[1].id
    /\ args.results[1].configuration /= args.results[2].configuration
    /\ Len(ret.vehicules) = 2

\* all charger definitions found at sources[0].transformateurs[0] of the
\* input documents, in input order
InputChargers(results) ==
    Concat([i \in 1..Len(results) |-> ItemChargers(results[i])])

\* the chargers list at sources[0].transformateurs[0] of a document
ResultChargers(d) == d.sources[1].transformateurs[1].chargeurs

IdOf(ch) == Get(ch, "id", NONE)

\* index of the first element of chs whose id is x
FirstIndex(chs, x) ==
    CHOOSE k \in 1..Len(chs) :
        IdOf(chs[k]) = x /\ \A j \in 1..(k - 1) : IdOf(chs[j]) /= x

\* L is the union of the chargers of chs that satisfy Keep, one per id, the
\* first occurrence kept, in first-occurrence order
IsUnionById(L, chs, Keep(_)) ==
    /\ \A k \in 1..Len(chs) :
          Keep(chs[k]) => \E m \in 1..Len(L) : IdOf(L[m]) = IdOf(chs[k])
    /\ \A m \in 1..Len(L) :
          /\ \E k \in 1..Len(chs) : Keep(chs[k]) /\ IdOf(chs[k]) = IdOf(L[m])
          /\ L[m] = chs[FirstIndex(chs, IdOf(L[m]))]
    /\ \A m, n \in 1..Len(L) :
          m < n => FirstIndex(chs, IdOf(L[m])) < FirstIndex(chs, IdOf(L[n]))

AnyCharger(ch) == TRUE
HasId(ch) == Truthy(IdOf(ch))

AggregatedWithSources ==
    /\ Returned("aggregate_results")
    /\ Len(args.results) >= 1
    /\ args.results[1].sources /= << >>

LoadedMap(P) == LoadInfra(P.infra).t = "map"
LoadedSources(P) == Get(LoadInfra(P.infra).v, "sources", << >>)

\* exactly one charger, with exactly one plug
OneChargerOnePlug(sources) ==
    /\ Len(AllChargers(sources)) = 1
    /\ Len(Get(AllChargers(sources)[1], "prises", << >>)) = 1

\* C7: when map_records returns for an infrastructure that loaded as a
\* mapping, the document's sources are the infrastructure's sources; with
\* exactly one charger with exactly one plug, every vehicle entry has that
\* plug's id as idPrise.
C7_InfrastructureSources ==
    (Returned("map_records") /\ LoadedMap(args.P)) =>
        /\ Get(ret, "sources", <<"absent">>) = LoadedSources(args.P)
        /\ OneChargerOnePlug(LoadedSources(args.P)) =>
              \A i \in 1..Len(args.records) :
                  /\ Len(Get(ret, "vehicules", << >>)) = Len(args.records)
                  /\ ret.vehicules[i].idPrise =
                        Str(Get(AllChargers(LoadedSources(args.P))[1].prises[1],
                                "id", ""))

C7_Witness ==
    /\ Returned("map_records")
    /\ args.P.infra = InfraFile("json", "map", InfraOnePlug)
    /\ Len(args.records) = 2
    /\ ret.sources = InfraOnePlug.sources
    /\ \A i \in 1..2 : ret.vehicules[i].idPrise = <<"P1">>

\* the record carries a vehicle identifier: a newIdVeh that is not blank
HasVehicleId(record) ==
    /\ "newIdVeh" \in DOMAIN record
    /\ Strip(StrOf(record.newIdVeh)) /= ""

\* the (charger, plug) pairs of an infrastructure
ChargerPlugPairs(sources) ==
    UNION { { <<AllChargers(sources)[c], Get(AllChargers(sources)[c], "prises", << >>)[p]>> :
                p \in 1..Len(Get(AllChargers(sources)[c], "prises", << >>)) } :
            c \in 1..Len(AllChargers(sources)) }

TemplateModele == DEFAULT_TEMPLATE.vehicules[1].typeChargeur[1].modeleChargeur
TemplateTypePrise == DEFAULT_TEMPLATE.vehicules[1].typePrise

\* the three cases of the plug assignment, with what the vehicle takes from
\* the pair <<charger, plug>> in the first; there every pair is the outcome
\* of some draw
PlugAssignment(Takes(_, _)) ==
    Returned("map_record") =>
        LET veh == ret.vehicules[1]
            P == args.P
            Drawn(draw) ==
                map_record(args.record, DEFAULT_TEMPLATE, P, draw).val.vehicules[1]
        IN  IF LoadInfra(P.infra).t /= "none" /\ ChargerPlugPairs(LoadedSources(P)) /= {}
            THEN /\ \E cp \in ChargerPlugPairs(LoadedSources(P)) : Takes(veh, cp)
                 /\ \A cp \in ChargerPlugPairs(LoadedSources(P)) :
                       \E draw \in Draws(P.infra) : Takes(Drawn(draw), cp)
            ELSE IF LoadInfra(P.infra).t = "none" /\ HasVehicleId(args.record)
            THEN /\ veh.idPrise =
                       <<"TR1_CH_", Strip(StrOf(args.record.newIdVeh)), "_P1">>
                 /\ veh.typeChargeur[1].modeleChargeur = TemplateModele
                 /\ veh.typePrise = TemplateTypePrise
            ELSE veh.idPrise = << >>

TakesAll(veh, cp) ==
    /\ "id" \in DOMAIN cp[2]
    /\ veh.idPrise = Str(cp[2].id)
    /\ veh.typePrise = Get(cp[2], "typePrise", NONE)
    /\ veh.typeChargeur[1].modeleChargeur = Get(cp[1], "typeChargeur", NONE)

TakesWhatIsThere(veh, cp) ==
    /\ veh.idPrise = Str(Get(cp[2], "id", ""))
    /\ veh.typePrise = IF "typePrise" \in DOMAIN cp[2] THEN cp[2].typePrise
                       ELSE TemplateTypePrise
    /\ veh.typeChargeur[1].modeleChargeur =
          IF "typeChargeur" \in DOMAIN cp[1] /\ cp[1].typeChargeur /= ""
          THEN cp[1].typeChargeur ELSE TemplateModele

\* C8 as stated: with a plugged charger in the infrastructure, idPrise,
\* typePrise and modeleChargeur are the id and typePrise of one plug and the
\* typeChargeur of the charger owning it; without infrastructure and with a
\* vehicle identifier idPrise is "TR1_CH_{id}_P1" and the template's types
\* are kept; otherwise idPrise is empty.
C8_PlugAndTypesFromInfrastructure == PlugAssignment(TakesAll)

\* C8 amended: as stated, except that typePrise is the plug's typePrise only
\* when the plug has one and modeleChargeur is the charger's typeChargeur only
\* when that is non-empty (the template's value is kept otherwise), and
\* idPrise is empty when the plug has no id.
C8_PlugAndTypesWhenPresent == PlugAssignment(TakesWhatIsThere)

C8_Witness ==
    /\ Returned("map_record")
    /\ args.P.infra = InfraFile("json", "map", InfraMany)
    /\ args.draw = [c |-> 1, p |-> 2]
    /\ ret.vehicules[1].idPrise = <<"P2">>
    /\ ret.vehicules[1].typePrise = "T2"
    /\ ret.vehicules[1].typeChargeur[1].modeleChargeur = "Fast"

\* an infrastructure file that is missing, unreadable, no JSON/YAML, or that
\* holds something other than a mapping
Malformed(f) == f.path /\ f.content /= "map"

\* the outcome <<pc, ret>> of a call
OutcomeOf(r) == <<IF r.ok THEN "returned" ELSE "raised", r.val>>

\* C9: with a malformed infrastructure file, map_record and map_records
\* complete exactly as if no infrastructure had been supplied.
C9_MalformedInfrastructureIsAbsent ==
    /\ (op = "map_record" /\ Malformed(args.P.infra)) =>
          <<pc, ret>> =
             OutcomeOf(map_record(args.record, DEFAULT_TEMPLATE,
                                  [args.P EXCEPT !.infra = NoInfra], NoDraw))
    /\ (op = "map_records" /\ Malformed(args.P.infra)) =>
          <<pc, ret>> =
             OutcomeOf(map_records(args.records, DEFAULT_TEMPLATE,
                                   [args.P EXCEPT !.infra = NoInfra],
                                   [i \in 1..Len(args.records) |-> NoDraw]))

\* whether mapping the i-th record of a batch raises, and with what
RecordRaises(a, i) ==
    ~map_record(a.records[i], DEFAULT_TEMPLATE, a.P, a.draws[i]).ok
RecordError(a, i) ==
    map_record(a.records[i], DEFAULT_TEMPLATE, a.P, a.draws[i]).val

\* C10: if mapping any record of the batch raises, map_records raises that
\* error and returns no document; whenever it returns, the result has a
\* vehicle entry for every record of the batch.
C10_NoPartialFailure ==
    op = "map_records" =>
        /\ (\E i \in 1..Len(args.records) : RecordRaises(args, i)) =>
              /\ pc = "raised"
              /\ \E i \in 1..Len(args.records) :
                    RecordRaises(args, i) /\ ret = RecordError(args, i)
        /\ pc = "returned" =>
              /\ Len(Get(ret, "vehicules", << >>)) = Len(args.records)
              /\ \A i \in 1..Len(args.records) :
                    ret.vehicules[i] = VehicleOf(args, i)

C10_Witness ==
    /\ op = "map_records"
    /\ pc = "raised"
    /\ Len(args.records) = 2
    /\ ~RecordRaises(args, 1)
    /\ RecordRaises(args, 2)

-----------------------------------------------------------------------------
(* C11: validate_optim_dates against the observed jourDep window           *)

\* the value a bound denotes, for a bound that denotes one
Denotes(b) == parse_iso_datetime(b)

ObservedMin(simu) == excel_number_to_datetime(SetMin(JourVals(simu)))
ObservedMax(simu) == excel_number_to_datetime(SetMax(JourVals(simu)))

StrictlyContains(debut, fin, simu) ==
    /\ Denotes(debut).ok /\ Denotes(fin).ok
    /\ DtLess(Denotes(debut).val, ObservedMin(simu))
    /\ DtLess(ObservedMax(simu), Denotes(fin).val)

\* the same map_record call without its two bounds
WithoutBounds(a) ==
    map_record(a.record, DEFAULT_TEMPLATE,
               [a.P EXCEPT !.start_dt = PNone, !.end_dt = PNone], a.draw)

BoundsDenote(P) ==
    /\ P.start_dt.t /= "none" => Denotes(P.start_dt).ok
    /\ P.end_dt.t /= "none" => Denotes(P.end_dt).ok

\* C11: with a jourDep observed, validate_optim_dates returns (None) exactly
\* when start < min jourDep and end > max jourDep, both strictly, and raises
\* ValueError in every other case; map_record never raises because of where
\* its bounds lie: with bounds that denote a date-time it raises exactly
\* when the same call without bounds does.
C11_StrictWindow ==
    /\ (op = "validate_optim_dates" /\ JourVals(args.simu) /= {}) =>
          /\ pc \in {"returned", "raised"}
          /\ (pc = "returned") = StrictlyContains(args.debut, args.fin, args.simu)
          /\ pc = "returned" => ret = NONE
          /\ pc = "raised" => ret = "ValueError"
    /\ (op = "map_record" /\ BoundsDenote(args.P)) =>
          (pc = "raised") = ~WithoutBounds(args).ok

\* a start equal to the observed minimum, with an end past the maximum, is
\* refused
C11_Witness ==
    /\ op = "validate_optim_dates" /\ pc = "raised"
    /\ JourVals(args.simu) /= {}
    /\ Denotes(args.debut).ok /\ Denotes(args.fin).ok
    /\ Denotes(args.debut).val = ObservedMin(args.simu)
    /\ DtLess(ObservedMax(args.simu), Denotes(args.fin).val)

-----------------------------------------------------------------------------
(* Object identity: the template and the documents as objects on a heap.   *)
(* A dict is a node with its scalar items (f) and the addresses of its     *)
(* mutable items (r); a list of dicts is a node with the addresses of its  *)
(* items; a list this development never looks into is a leaf with its      *)
(* value and the name of the key it hangs on.                               *)

DictNode(f, r) ==
    [kind |-> "dict", f |-> f, r |-> r, items |-> << >>, tag |-> "", v |-> << >>]
ListNode(items) ==
    [kind |-> "list", f |-> << >>, r |-> << >>, items |-> items, tag |-> "", v |-> << >>]
LeafNode(tag, v) ==
    [kind |-> "leaf", f |-> << >>, r |-> << >>, items |-> << >>, tag |-> tag, v |-> v]
FreeNode ==
    [kind |-> "free", f |-> << >>, r |-> << >>, items |-> << >>, tag |-> "", v |-> << >>]

\* the items of a dict value other than those named
Scalars(d, keys) == [k \in DOMAIN d \ keys |-> d[k]]

Children(n) == SeqToSet(n.items) \cup {n.r[k] : k \in DOMAIN n.r}

RECURSIVE Reach(_, _)
\* the addresses of the objects reachable from the object at a
Reach(h, a) == {a} \cup UNION {Reach(h, c) : c \in Children(h[a])}

RECURSIVE Deref(_, _)
\* the value of the object at a
Deref(h, a) ==
    LET n == h[a]
    IN  CASE n.kind = "leaf" -> n.v
          [] n.kind = "list" -> [i \in 1..Len(n.items) |-> Deref(h, n.items[i])]
          [] OTHER -> [k \in DOMAIN n.f \cup DOMAIN n.r |->
                          IF k \in DOMAIN n.r THEN Deref(h, n.r[k]) ELSE n.f[k]]

\* a new object: the heap with it, and its address
New(h, n) == [h |-> Append(h, n), a |-> Len(h) + 1]

\* a vehicle entry, a configuration and a document as objects
NewVehicule(h, veh) ==
    LET tc == New(h, DictNode(veh.typeChargeur[1], << >>))
        tl == New(tc.h, ListNode(<<tc.a>>))
        pb == New(tl.h, LeafNode("profilBatterie", veh.profilBatterie))
    IN  New(pb.h, DictNode(Scalars(veh, {"typeChargeur", "profilBatterie"}),
                           [typeChargeur |-> tl.a, profilBatterie |-> pb.a]))

NewConfiguration(h, cfg) ==
    LET ax == New(h, LeafNode("axeOptimDegrade", cfg.axeOptimDegrade))
    IN  New(ax.h, DictNode(Scalars(cfg, {"axeOptimDegrade"}),
                           [axeOptimDegrade |-> ax.a]))

NewDocument(h, doc) ==
    LET cf == NewConfiguration(h, doc.configuration)
        sr == New(cf.h, LeafNode("sources", doc.sources))
        ve == NewVehicule(sr.h, doc.vehicules[1])
        vl == New(ve.h, ListNode(<<ve.a>>))
        sy == New(vl.h, LeafNode("synthese", doc.synthese))
        ra == New(sy.h, LeafNode("rapport", doc.rapport))
    IN  New(ra.h, DictNode([idRun |-> doc.idRun, choix_optim |-> doc.choix_optim],
                           [configuration |-> cf.a, sources |-> sr.a,
                            vehicules |-> vl.a, synthese |-> sy.a,
                            rapport |-> ra.a]))

\* faulty variant: copy.copy: a new object whose items are the items of the old one
deepcopy_Shallow(h, a) == New(h, h[a])


RECURSIVE deepcopy(_, _)
\* copy.deepcopy: a new object for every object reachable from a
deepcopy(h, a) ==
    LET RECURSIVE CopyItems(_, _, _)
        CopyItems(hh, items, done) ==
            IF items = << >> THEN [h |-> hh, items |-> done]
            ELSE The({ CopyItems(c.h, Tail(items), Append(done, c.a)) :
                         c \in {deepcopy(hh, Head(items))} })
        RECURSIVE CopyRefs(_, _, _, _)
        CopyRefs(hh, r, keys, done) ==
            IF keys = {} THEN [h |-> hh, r |-> done]
            ELSE The({ The({ CopyRefs(c.h, r, keys \ {k}, Put(done, k, c.a)) :
                               c \in {deepcopy(hh, r[k])} }) :
                         k \in {CHOOSE x \in keys : TRUE} })
    IN  The({ The({ The({ New(cr.h, [n EXCEPT !.items = ci.items, !.r = cr.r]) :
                            cr \in {CopyRefs(ci.h, n.r, DOMAIN n.r, << >>)} }) :
                      ci \in {CopyItems(h, n.items, << >>)} }) :
                n \in {h[a]} })

\* d[k] = v for a scalar v, d[k] = the object at b, in place
SetItem(h, a, k, v) == [h EXCEPT ![a].f = Put(@, k, v)]
SetRef(h, a, k, b) == [h EXCEPT ![a].r = Put(@, k, b)]
\* every scalar item of the dict at a set to its value in d
SetItems(h, a, d) == [h EXCEPT ![a].f = [k \in DOMAIN @ |-> d[k]]]

\* data = deepcopy(template); data["choix_optim"] = choix_optim
CopyTemplate(h, tpl, P) ==
    The({ [h |-> SetItem(data.h, data.a, "choix_optim", P.choix_optim),
           data |-> data.a] :
            data \in {deepcopy(h, tpl)} })

\* configuration = deepcopy(config_template); configuration[...] = ...;
\* data["configuration"] = configuration
CopyConfiguration(h, tpl, data, cval) ==
    The({ The({ SetRef(SetRef(axe.h, cfg.a, "axeOptimDegrade", axe.a),
                       data, "configuration", cfg.a) :
                  axe \in {New(SetItems(cfg.h, cfg.a, cval),
                               LeafNode("axeOptimDegrade", cval.axeOptimDegrade))} }) :
            cfg \in {deepcopy(h, h[tpl].r.configuration)} })

\* data["sources"] = infra.get("sources", []), or []
AssignSources(h, data, sources) ==
    The({ SetRef(src.h, data, "sources", src.a) :
            src \in {New(h, LeafNode("sources", sources))} })

\* vehicule = deepcopy(veh_template); vehicule[...] = ..., with
\* vehicule["typeChargeur"][0]["modeleChargeur"] = modele and
\* vehicule["profilBatterie"] = profile; data["vehicules"] = [vehicule]
CopyVehicule(h, tpl, data, vval) ==
    The({ The({ The({ [h |-> SetRef(vl.h, data, "vehicules", vl.a), data |-> data] :
                        vl \in {New(SetRef(pb.h, veh.a, "profilBatterie", pb.a),
                                    ListNode(<<veh.a>>))} }) :
                  pb \in {New(SetItems(SetItems(veh.h, veh.a, vval),
                                       veh.h[veh.h[veh.a].r.typeChargeur].items[1],
                                       vval.typeChargeur[1]),
                              LeafNode("profilBatterie", vval.profilBatterie))} }) :
            veh \in {deepcopy(h, h[h[tpl].r.vehicules].items[1])} })

\* map_record on the heap: the copies it takes of the template at tpl, and
\* its assignments, each to the object the code assigns to. The values come
\* from map_record above, read from the template as it stands on the heap.
map_record_heap(h, tpl, record, P, draw) ==
    The({ The({ The({
        IF ~cval.ok THEN [ok |-> FALSE, val |-> cval.val, h |-> d1.h]
        ELSE The({
            IF ~out.ok THEN [ok |-> FALSE, val |-> out.val, h |-> h2]
            ELSE The({ [ok |-> TRUE, val |-> d1.data, h |-> r.h] :
                         r \in {CopyVehicule(
                                   AssignSources(h2, d1.data, out.val.sources),
                                   tpl, d1.data, out.val.vehicules[1])} }) :
              h2 \in {CopyConfiguration(d1.h, tpl, d1.data, cval.val)},
              out \in {map_record(record, template, P, draw)} }) :
          cval \in {Configuration(template, P)} }) :
          d1 \in {CopyTemplate(h, tpl, P)} }) :
          template \in {Deref(h, tpl)} })

\* aggregate_results on the heap: merged is a copy of the first document, its
\* vehicules a new list of the vehicle objects of the documents, and the
\* chargers are written into the sources of the copy
aggregate_results_heap(h, addrs) ==
    IF addrs = << >>
    THEN The({ [ok |-> TRUE, val |-> e.a, h |-> e.h] :
                 e \in {New(h, DictNode(<< >>, << >>))} })
    ELSE The({ The({ The({ The({
            IF ~out.ok THEN [ok |-> FALSE, val |-> out.val, h |-> h1]
            ELSE [ok |-> TRUE, val |-> merged.a,
                  h |-> [h1 EXCEPT ![h1[merged.a].r.sources].v = out.val.sources]] :
              h1 \in {SetRef(vl.h, merged.a, "vehicules", vl.a)} }) :
              vl \in {New(merged.h,
                          ListNode(Concat([i \in 1..Len(addrs) |->
                                             h[h[addrs[i]].r.vehicules].items])))} }) :
              merged \in {deepcopy(h, addrs[1])} }) :
              out \in {aggregate_results([i \in 1..Len(addrs) |->
                                            Deref(h, addrs[i])])} })

RECURSIVE MappedHeap(_, _, _, _, _, _)
\* the loop of map_records: the documents so far, until a mapping raises
MappedHeap(h, tpl, records, P, draws, done) ==
    IF Len(done) = Len(records) THEN [ok |-> TRUE, val |-> done, h |-> h]
    ELSE The({ IF ~r.ok THEN r
               ELSE MappedHeap(r.h, tpl, records, P, draws, Append(done, r.val)) :
                 r \in {map_record_heap(h, tpl, records[Len(done) + 1], P,
                                        draws[Len(done) + 1])} })

map_records_heap(h, tpl, records, P, draws) ==
    The({ The({
        IF ~results.ok THEN results
        ELSE The({
            IF ~merged.ok \/ infra.t = "none" THEN merged
            ELSE IF ~InfraSources(infra).ok
            THEN [ok |-> FALSE, val |-> InfraSources(infra).val, h |-> merged.h]
            ELSE The({ [ok |-> TRUE, val |-> merged.val,
                        h |-> SetRef(src.h, merged.val, "sources", src.a)] :
                         src \in {New(merged.h,
                                      LeafNode("sources", InfraSources(infra).val))} }) :
              merged \in {aggregate_results_heap(results.h, results.val)} }) :
          results \in {MappedHeap(h, tpl, records, P, draws, << >>)} }) :
          infra \in {LoadInfra(P.infra)} })

\* what a caller can do to an object it holds: add an item to a dict, empty
\* a list of objects, append to a list
Poison(h, a) ==
    LET n == h[a]
    IN  CASE n.kind = "dict" -> [h EXCEPT ![a].f = Put(@, "mutated", TRUE)]
          [] n.kind = "list" -> [h EXCEPT ![a].items = << >>]
          [] n.tag \in {"axeOptimDegrade", "synthese"} ->
                [h EXCEPT ![a].v = Append(@, 0)]
          [] n.tag = "rapport" -> [h EXCEPT ![a].v = Put(@, "mutated", TRUE)]
          [] n.tag = "sources" -> [h EXCEPT ![a].v = Append(@, [id |-> "mutated"])]
          [] OTHER -> [h EXCEPT ![a].v = Append(@, [x |-> 0, y |-> 0])]

\* the heap once the caller has dropped everything but the object at root
Collect(h, root) ==
    SubSeq([i \in 1..Len(h) |-> IF i \in Reach(h, root) THEN h[i] ELSE FreeNode],
           1, SetMax(Reach(h, root)))

\* -- the caller keeps one template for all its calls ------------------------

MaxCalls == 2

TemplateRecords ==
    { [newIdVeh |-> CStr("1"), seqVoy |-> CStr("1"), tVeh |-> CStr("P")],
      [newIdVeh |-> CStr(" "), seqVoy |-> CStr("1"), tVeh |-> CStr("")],
      [newIdVeh |-> CStr("2"), seqVoy |-> CStr("2"), tVeh |-> CNum(7)] }

TemplateParams ==
    { DefaultParams,
      [MainParams EXCEPT !.start_dt = PStr(IsoText(45641, 0, 0, FALSE)),
                         !.end_dt = PDt(Dt(45648, 7200, 600000))],
      [MainParams EXCEPT !.end_dt = PStr(BadText)],
      [DefaultParams EXCEPT !.infra = InfraFile("json", "map", InfraMany)],
      [MainParams EXCEPT !.infra = InfraFile("yaml", "map", InfraOnePlug)],
      [DefaultParams EXCEPT !.infra = InfraFile("json", "list", << >>)] }

TemplateRecordLists == UNION {[1..n -> TemplateRecords] : n \in 0..MaxRecords}

InitTemplate ==
    /\ pc = "idle"
    /\ op = "none"
    /\ args = << >>
    /\ ret = << >>
    /\ heap = NewDocument(<< >>, DEFAULT_TEMPLATE).h
    /\ tplAddr = NewDocument(<< >>, DEFAULT_TEMPLATE).a
    /\ docAddr = 0
    /\ calls = 0
    /\ files = << >>
    /\ steps = << >>

OutcomeHeap(name, a, r) ==
    /\ pc' = IF r.ok THEN "returned" ELSE "raised"
    /\ op' = name
    /\ args' = a
    /\ ret' = IF r.ok THEN Deref(r.h, r.val) ELSE r.val
    /\ heap' = r.h
    /\ docAddr' = IF r.ok THEN r.val ELSE 0
    /\ calls' = calls + 1
    /\ UNCHANGED <<tplAddr, files, steps>>

TemplateMapRecord ==
    /\ pc = "idle"
    /\ calls < MaxCalls
    /\ \E record \in TemplateRecords, P \in TemplateParams :
         \E draw \in Draws(P.infra) :
            \E r \in {map_record_heap(heap, tplAddr, record, P, draw)} :
               OutcomeHeap("map_record",
                           [record |-> record, P |-> P, draw |-> draw], r)

TemplateMapRecords ==
    /\ pc = "idle"
    /\ calls < MaxCalls
    /\ \E records \in TemplateRecordLists, P \in TemplateParams :
         \E draws \in DrawLists(P.infra, Len(records)) :
            \E r \in {map_records_heap(heap, tplAddr, records, P, draws)} :
               OutcomeHeap("map_records",
                           [records |-> records, P |-> P, draws |-> draws], r)

\* the caller mutates an object of the document it was handed
MutateDocument ==
    /\ pc = "returned"
    /\ \E a \in Reach(heap, docAddr) : heap' = Poison(heap, a)
    /\ pc' = "mutated"
    /\ UNCHANGED <<op, args, ret, tplAddr, docAddr, calls, files, steps>>

\* the caller drops the document, or the exception
DropDocument ==
    /\ pc \in {"returned", "raised", "mutated"}
    /\ pc' = "idle"
    /\ op' = "none"
    /\ args' = << >>
    /\ ret' = << >>
    /\ heap' = Collect(heap, tplAddr)
    /\ docAddr' = 0
    /\ UNCHANGED <<tplAddr, calls, files, steps>>

NextTemplate ==
    TemplateMapRecord \/ TemplateMapRecords \/ MutateDocument \/ DropDocument

SpecTemplate == InitTemplate /\ [][NextTemplate]_vars

\* the outcome of the call on a template fresh from DEFAULT_TEMPLATE
FreshOutcome ==
    IF op = "map_record"
    THEN map_record(args.record, DEFAULT_TEMPLATE, args.P, args.draw)
    ELSE map_records(args.records, DEFAULT_TEMPLATE, args.P, args.draws)

\* C1: through any sequence of map_record and map_records calls on one
\* template, and whatever the caller does to the documents returned, the
\* template keeps the value it had; a returned document has no object in
\* common with the template; and every call returns, or raises, what it does
\* on a fresh template.
C1_TemplateUntouched ==
    /\ Deref(heap, tplAddr) = DEFAULT_TEMPLATE
    /\ docAddr /= 0 => Reach(heap, docAddr) \cap Reach(heap, tplAddr) = {}
    /\ pc \in {"returned", "raised"} =>
          /\ (pc = "returned") = FreshOutcome.ok
          /\ ret = FreshOutcome.val

C1_Witness ==
    /\ pc = "mutated"
    /\ calls = MaxCalls
    /\ op = "map_records"
    /\ Len(args.records) = 2
    /\ args.P.infra.content = "map"
    /\ Deref(heap, docAddr) /= ret

-----------------------------------------------------------------------------
(* Row enrichment (src/transformer.py)                                     *)

\* A float is a fraction n/d in lowest terms with d > 0, or nan. Rounding is
\* left out: the values drawn below have exact quotients.
RECURSIVE GCD(_, _)
GCD(a, b) == IF b = 0 THEN a ELSE GCD(b, a % b)
Abs(n) == IF n < 0 THEN -n ELSE n
Frac(n, d) ==
    LET g == GCD(Abs(n), Abs(d))
        sg == IF d < 0 THEN -1 ELSE 1
    IN  [nan |-> FALSE, n |-> sg * (n \div g), d |-> sg * (d \div g)]
Float(n) == Frac(n, 1)
NaN == [nan |-> TRUE, n |-> 0, d |-> 1]
FMul(a, b) == IF a.nan \/ b.nan THEN NaN ELSE Frac(a.n * b.n, a.d * b.d)
\* a / b for b /= 0
FDiv(a, b) == IF a.nan \/ b.nan THEN NaN ELSE Frac(a.n * b.d, a.d * b.n)
FSub(a, b) == IF a.nan \/ b.nan THEN NaN ELSE Frac(a.n * b.d - b.n * a.d, a.d * b.d)
\* a < b: false when either is nan
FLess(a, b) == ~a.nan /\ ~b.nan /\ a.n * b.d < b.n * a.d
\* bool(x): nan is true
FTruthy(x) == x.nan \/ x.n /= 0
\* max(a, b) of Python: the first argument unless the second is greater
PyMax(a, b) == IF FLess(a, b) THEN b ELSE a

\* float(cell) on the cells the model draws: the text "nan" is a float
ToFloat(c) ==
    CASE c.t = "num" -> Ok(Float(c.n))
      [] c.t = "none" -> Raise("TypeError")
      [] c.t = "str" /\ c.v \in NumericTexts -> Ok(Float(TextInt(c.v)))
      [] c.t = "str" /\ c.v = "12.5" -> Ok(Frac(25, 2))
      [] c.v = "nan" -> Ok(NaN)
      [] OTHER -> Raise("ValueError")

\* the order of the vehicle identifiers drawn, as column values compare
IdRank(id) == CASE id = "A" -> 1 [] id = "B" -> 2 [] OTHER -> 0

\* row a sorts strictly before row b on [vehicule_col, start_col]
KeyLess(a, b) ==
    \/ IdRank(a.newIdVeh) < IdRank(b.newIdVeh)
    \/ a.newIdVeh = b.newIdVeh /\ a.hDep < b.hDep

\* faulty variant: the rows are left in the order given
SortRows_Unsorted(rows) == rows

RECURSIVE SortRows(_)
\* sort_values([vehicule_col, start_col]): rows with equal keys keep their
\* order
SortRows(rows) ==
    IF rows = << >> THEN << >>
    ELSE LET n == Len(rows)
             front == SortRows(SubSeq(rows, 1, n - 1))
             x == rows[n]
             k == Cardinality({i \in 1..Len(front) : ~KeyLess(x, front[i])})
         IN  SubSeq(front, 1, k) \o <<x>> \o SubSeq(front, k + 1, Len(front))

\* faulty variant: shift(-1) on the column, without the groupby
ShiftNext_NoGroup(target, i) ==
    IF i < Len(target) THEN Some(target[i + 1].hDep) ELSE Nothing

\* groupby(vehicule_col, sort=False)[start_col].shift(-1) at row i: the start
\* of the next row of the same vehicle, if any
ShiftNext(target, i) ==
    LET later == {j \in (i + 1)..Len(target) :
                     target[j].newIdVeh = target[i].newIdVeh}
    IN  IF later = {} THEN Nothing ELSE Some(target[SetMin(later)].hDep)

add_next_service_time(df) ==
    LET target == SortRows(df)
    IN  [i \in 1..Len(target) |-> Put(target[i], NEXT_COL, ShiftNext(target, i))]

\* max(soc_cible - delta_soc, 0)
SocAfter(soc_cible, delta_soc) == PyMax(FSub(soc_cible, delta_soc), Float(0))

\* one pass of the loop of compute_soc
DeltaSoc(row, conso_table, projection, capacity_table) ==
    LET modele == Strip(StrOf(row.tVeh))
        conso == Get(conso_table, <<projection, modele>>, Float(0))
        capacite == Get(capacity_table, <<projection, modele>>, Float(0))
        dist == IF ToFloat(row.dist).ok THEN ToFloat(row.dist).val ELSE Float(0)
    IN  IF FTruthy(capacite)
        THEN FMul(FDiv(FMul(conso, dist), capacite), Float(100))
        ELSE Float(0)

RECURSIVE ChainedSoc(_, _, _, _, _, _)
\* the SOC of row i when each row starts from what the previous row of its
\* vehicle was left with
ChainedSoc(target, i, conso_table, soc_cible, projection, capacity_table) ==
    LET earlier == {j \in 1..(i - 1) : target[j].newIdVeh = target[i].newIdVeh}
        start == IF earlier = {} THEN soc_cible
                 ELSE ChainedSoc(target, SetMax(earlier), conso_table, soc_cible,
                                 projection, capacity_table)
    IN  SocAfter(start, DeltaSoc(target[i], conso_table, projection,
                                 capacity_table))

\* faulty variant: the SOC is chained along the rows of a vehicle
compute_soc_Chained(df, conso_table, soc_cible, projection, capacity_table) ==
    LET target == SortRows(df)
    IN  [i \in 1..Len(target) |->
            Put(target[i], SOC_COL,
                ChainedSoc(target, i, conso_table, soc_cible, projection,
                           capacity_table))]

compute_soc(df, conso_table, soc_cible, projection, capacity_table) ==
    LET target == SortRows(df)
    IN  [i \in 1..Len(target) |->
            Put(target[i], SOC_COL,
                SocAfter(soc_cible,
                         DeltaSoc(target[i], conso_table, projection,
                                  capacity_table)))]

\* -- inputs -----------------------------------------------------------------

MaxRows == 3

ConsoTable == (<<0, "P">> :> Float(1)) @@ (<<0, "T">> :> Float(2))
CapacityTable == (<<0, "P">> :> Float(1000)) @@ (<<0, "T">> :> Float(0))

PlainRows ==
    { [newIdVeh |-> v, hDep |-> h] : v \in {"A", "B"}, h \in 1..2 }

SocRows ==
    { [newIdVeh |-> "A", hDep |-> 2, tVeh |-> CStr("P"), dist |-> CStr("10")],
      [newIdVeh |-> "A", hDep |-> 1, tVeh |-> CStr(" P "), dist |-> CStr("20")],
      [newIdVeh |-> "B", hDep |-> 1, tVeh |-> CStr("P"), dist |-> CNum(200000)],
      [newIdVeh |-> "B", hDep |-> 2, tVeh |-> CStr("P"), dist |-> CStr("")],
      [newIdVeh |-> "A", hDep |-> 1, tVeh |-> CStr("T"), dist |-> CStr("10")],
      [newIdVeh |-> "B", hDep |-> 1, tVeh |-> CStr("X"), dist |-> CStr("20")],
      [newIdVeh |-> "A", hDep |-> 2, tVeh |-> CStr("P"), dist |-> CStr("-10")],
      [newIdVeh |-> "B", hDep |-> 2, tVeh |-> CStr("P"), dist |-> CStr("nan")] }

SocCibleSet == {Float(100), Float(80)}

RowLists(S) == UNION {[1..n -> S] : n \in 0..MaxRows}

InitEnrich == Init

AddNextServiceTimeCall ==
    /\ pc = "idle"
    /\ \E df \in RowLists(PlainRows) :
          Outcome("add_next_service_time", [df |-> df],
                  Ok(add_next_service_time(df)))

ComputeSocCall ==
    /\ pc = "idle"
    /\ \E df \in RowLists(SocRows), soc_cible \in SocCibleSet :
          Outcome("compute_soc", [df |-> df, soc_cible |-> soc_cible],
                  Ok(compute_soc(df, ConsoTable, soc_cible, 0, CapacityTable)))

NextEnrich == AddNextServiceTimeCall \/ ComputeSocCall \/ Return

SpecEnrich == InitEnrich /\ [][NextEnrich]_vars

\* -- properties ---------------------------------------------------------------

\* a >= b on floats
FGeq(a, b) == ~a.nan /\ ~b.nan /\ a.n * b.d >= b.n * a.d

\* the row without a column
Without(row, col) == [k \in DOMAIN row \ {col} |-> row[k]]

\* what the claim takes the distance of a row to be
ClaimedDelta(row) ==
    LET key == <<0, Strip(StrOf(row.tVeh))>>
        dist == IF ToFloat(row.dist).ok THEN ToFloat(row.dist).val ELSE Float(0)
    IN  IF key \in DOMAIN CapacityTable /\ CapacityTable[key] /= Float(0)
        THEN FMul(FDiv(FMul(Get(ConsoTable, key, Float(0)), dist),
                       CapacityTable[key]), Float(100))
        ELSE Float(0)

\* C3: in what compute_soc returns every row has soc_after = target - delta
\* when that is not negative and 0 otherwise, with delta = consumption *
\* distance / capacity * 100, or 0 when the capacity is 0 or missing; so
\* soc_after >= 0 in every row, and soc_after = target where the capacity
\* is 0.
C3_SocAfterNeverNegative ==
    Returned("compute_soc") =>
        \A i \in 1..Len(ret) :
            LET d == FSub(args.soc_cible, ClaimedDelta(ret[i]))
            IN  /\ ret[i][SOC_COL] = IF FGeq(d, Float(0)) THEN d ELSE Float(0)
                /\ FGeq(ret[i][SOC_COL], Float(0))
                /\ ClaimedDelta(ret[i]) = Float(0) =>
                      ret[i][SOC_COL] = args.soc_cible

\* the rows of ret are the rows of df, each once
SameRows(out, df, col) ==
    /\ Len(out) = Len(df)
    /\ \E f \in [1..Len(df) -> 1..Len(df)] :
          /\ \A i, j \in 1..Len(df) : f[i] = f[j] => i = j
          /\ \A i \in 1..Len(df) : Without(out[i], col) = df[f[i]]

\* C4: add_next_service_time returns the rows it was given, each once, in
\* ascending order of (vehicle, departure); a row followed by a row of its
\* vehicle has that row's departure as next-service time, and the last row of
\* each vehicle has none.
C4_NextServiceTime ==
    Returned("add_next_service_time") =>
        /\ SameRows(ret, args.df, NEXT_COL)
        /\ \A i, j \in 1..Len(ret) : i < j => ~KeyLess(ret[j], ret[i])
        /\ \A i \in 1..Len(ret) :
              IF i < Len(ret) /\ ret[i + 1].newIdVeh = ret[i].newIdVeh
              THEN ret[i][NEXT_COL] = Some(ret[i + 1].hDep)
              ELSE ret[i][NEXT_COL] = Nothing

C4_Witness ==
    /\ Returned("add_next_service_time")
    /\ args.df = << [newIdVeh |-> "B", hDep |-> 1], [newIdVeh |-> "A", hDep |-> 2],
                    [newIdVeh |-> "A", hDep |-> 1] >>
    /\ ret[1][NEXT_COL] = Some(2)
    /\ ret[2][NEXT_COL] = Nothing
    /\ ret[3].newIdVeh = "B"

\* the SOC compute_soc gives a row that is alone in its frame
SocAlone(row, soc_cible) ==
    compute_soc(<<row>>, ConsoTable, soc_cible, 0, CapacityTable)[1][SOC_COL]

\* C20: in what compute_soc returns, the soc_after of a row is what the row
\* gets when it is alone in the frame, so it depends on the row's model and
\* distance and on the run-wide target and tables only: no other row, of the
\* same vehicle or not, before or after, has a part in it.
C20_SocNotChained ==
    Returned("compute_soc") =>
        /\ \A i \in 1..Len(ret) :
              ret[i][SOC_COL] = SocAlone(Without(ret[i], SOC_COL), args.soc_cible)
        /\ \A i, j \in 1..Len(ret) :
              (ret[i].tVeh = ret[j].tVeh /\ ret[i].dist = ret[j].dist) =>
                  ret[i][SOC_COL] = ret[j][SOC_COL]

\* two rows of one vehicle, each consuming: the second still starts from the
\* target
C20_Witness ==
    /\ Returned("compute_soc")
    /\ Len(ret) = 3
    /\ ret[1].newIdVeh = "A" /\ ret[2].newIdVeh = "A"
    /\ ret[1].hDep < ret[2].hDep
    /\ FLess(ret[1][SOC_COL], args.soc_cible)
    /\ FLess(ret[2][SOC_COL], args.soc_cible)
    /\ ret[2][SOC_COL] = FSub(args.soc_cible, DeltaSoc(ret[2], ConsoTable, 0,
                                                      CapacityTable))


-----------------------------------------------------------------------------
(* Schema validation (src/validator.py)                                    *)
(*                                                                         *)
(* A JSON value carries its Python type k: "str", "int", "float", "bool",  *)
(* "none", "dict" (fields: key -> value) or "list" (elems).  A text also   *)
(* carries its form: "empty", "date" (YYYY-MM-DD, which                    *)
(* datetime.fromisoformat and date.fromisoformat both accept), "datetime"  *)
(* (a date-time text, with or without trailing 'Z', which only             *)
(* datetime.fromisoformat accepts) or "plain" (any other text).            *)
(* A message or a path is the sequence of its parts.                       *)

VScalar(k, s, n, form) == [k |-> k, s |-> s, n |-> n, form |-> form]
VStr(x) == VScalar("str", x, 0, "plain")
VDateTime(x) == VScalar("str", x, 0, "datetime")
VDate(x) == VScalar("str", x, 0, "date")
VEmpty == VScalar("str", "", 0, "empty")
VInt(n) == VScalar("int", "", n, "plain")
VFloat(n) == VScalar("float", "", n, "plain")
VBool(b) == VScalar("bool", "", IF b THEN 1 ELSE 0, "plain")
VNone == VScalar("none", "", 0, "plain")
VDict(f) == [k |-> "dict", fields |-> f]
VList(q) == [k |-> "list", elems |-> q]

\* isinstance(value, T): bool is a subclass of int
InstanceOf(value, T) == value.k = T \/ (T = "int" /\ value.k = "bool")

\* _is_iso_datetime: "" is allowed; any other value must be a text that
\* parse_iso_datetime accepts
_is_iso_datetime(value) ==
    value.k = "str" /\ value.form \in {"empty", "datetime", "date"}

\* _is_iso_date: a text that date.fromisoformat accepts
_is_iso_date(value) == value.k = "str" /\ value.form = "date"

\* schema nodes: a dict (its keys in insertion order), a list, a type, a
\* tuple of types, a callable, anything else
SDict(keys, sub) == [n |-> "dict", keys |-> keys, sub |-> sub]
SList(elems) == [n |-> "list", elems |-> elems]
SType(T) == [n |-> "type", types |-> <<T>>]
STuple(Ts) == [n |-> "tuple", types |-> Ts]
SPred(p) == [n |-> "callable", p |-> p]
SOther == [n |-> "other"]

\* schema(value) for a callable schema node
CallPredicate(p, value) ==
    IF p = "_is_iso_datetime" THEN _is_iso_datetime(value)
    ELSE _is_iso_date(value)

SInt == SType("int")
SStr == SType("str")
SNumber == STuple(<<"int", "float">>)
SRendement == SList(<<SDict(<<"x", "y">>, [x |-> SInt, y |-> SNumber])>>)

SCHEMA ==
    SDict(<<"idRun", "synthese", "configuration", "rapport", "sources",
            "vehicules">>,
      [idRun |-> SStr,
       synthese |-> SList(<<SStr>>),
       configuration |->
         SDict(<<"activationRendement", "axeOptimDegrade", "diminutionSOC",
                 "pasDeTemps", "maximumExecTemps", "debutOptim", "finOptim">>,
           [activationRendement |-> SStr,
            axeOptimDegrade |-> SList(<<SInt>>),
            diminutionSOC |-> SInt,
            pasDeTemps |-> SInt,
            maximumExecTemps |-> SInt,
            debutOptim |-> SPred("_is_iso_datetime"),
            finOptim |-> SPred("_is_iso_datetime")]),
       rapport |-> SDict(<<"url", "resultUrl">>, [url |-> SStr, resultUrl |-> SStr]),
       sources |->
         SList(<<SDict(<<"id", "libelle", "pMax", "tranches", "transformateurs">>,
           [id |-> SStr,
            libelle |-> SStr,
            pMax |-> SList(<<SInt>>),
            tranches |->
              SList(<<SDict(<<"id", "cout", "dateDebut", "dateFin", "heureTranche">>,
                [id |-> SStr,
                 cout |-> SNumber,
                 dateDebut |-> SPred("_is_iso_date"),
                 dateFin |-> SPred("_is_iso_date"),
                 heureTranche |->
                   SList(<<SDict(<<"debut", "fin">>,
                                 [debut |-> SInt, fin |-> SInt])>>)])>>),
            transformateurs |->
              SList(<<SDict(<<"id", "libelle", "etat", "rendement",
                              "facteurPuissance", "pMax", "chargeurs">>,
                [id |-> SStr,
                 libelle |-> SStr,
                 etat |-> SStr,
                 rendement |-> SRendement,
                 facteurPuissance |-> SNumber,
                 pMax |-> SInt,
                 chargeurs |->
                   SList(<<SDict(<<"id", "libelle", "etat", "pMax",
                                   "typeChargeur", "mutualisation", "rendement",
                                   "prises">>,
                     [id |-> SStr,
                      libelle |-> SStr,
                      etat |-> SStr,
                      pMax |-> SInt,
                      typeChargeur |-> SStr,
                      mutualisation |->
                        SDict(<<"nombrePrises", "configsMutualisation">>,
                          [nombrePrises |-> SInt,
                           configsMutualisation |->
                             SList(<<SDict(<<"configMutualisation">>,
                                [configMutualisation |-> SList(<<SInt>>)])>>)]),
                      rendement |-> SRendement,
                      prises |->
                        SList(<<SDict(<<"id", "libelle", "etat", "typePrise",
                                        "pMax">>,
                          [id |-> SStr, libelle |-> SStr, etat |-> SStr,
                           typePrise |-> SStr, pMax |-> SInt])>>)])>>)])>>)])>>),
       vehicules |->
         SList(<<SDict(<<"id", "capaciteBatterie", "idPrise", "libelle",
                         "modeBoost", "typeChargeur", "typePrise",
                         "profilBatterie", "soc", "socCible", "dureeService",
                         "finService", "debutService">>,
           [id |-> SStr,
            capaciteBatterie |-> SInt,
            idPrise |-> SStr,
            libelle |-> SStr,
            modeBoost |-> SInt,
            typeChargeur |->
              SList(<<SDict(<<"modeleChargeur">>, [modeleChargeur |-> SStr])>>),
            typePrise |-> SStr,
            profilBatterie |->
              SList(<<SDict(<<"x", "y">>, [x |-> SInt, y |-> SInt])>>),
            soc |-> SInt,
            socCible |-> SInt,
            dureeService |-> SInt,
            finService |-> SPred("_is_iso_datetime"),
            debutService |-> SPred("_is_iso_datetime")])>>)])

\* the text of a list index, f"[{idx}]"
IdxText(idx) == <<"[0]", "[1]", "[2]">>[idx + 1]

RECURSIVE RStrip(_)
\* path.rstrip('.')
RStrip(path) ==
    IF path /= << >> /\ path[Len(path)] = "."
    THEN RStrip(SubSeq(path, 1, Len(path) - 1))
    ELSE path

\* text or 'value'
OrValue(text) == IF text = << >> THEN <<"value">> ELSE text

Err(exc, msg) == [exc |-> exc, msg |-> msg]

RECURSIVE _validate(_, _, _)
RECURSIVE ValidateKeys(_, _, _, _)
RECURSIVE ValidateKeys_Lenient(_, _, _, _)
RECURSIVE ValidateKeys_Reversed(_, _, _, _)
RECURSIVE ValidateItems(_, _, _, _)

\* faulty variant: a key the value lacks is passed over
ValidateKeys_Lenient(value, schema, path, i) ==
    IF i > Len(schema.keys) THEN Ok(NONE)
    ELSE IF schema.keys[i] \notin DOMAIN value.fields
    THEN ValidateKeys_Lenient(value, schema, path, i + 1)
    ELSE The({ IF ~r.ok THEN r
               ELSE ValidateKeys_Lenient(value, schema, path, i + 1) :
               r \in { _validate(v, schema.sub[schema.keys[i]],
                                 path \o <<schema.keys[i], ".">>) :
                       v \in {value.fields[schema.keys[i]]} } })

\* faulty variant: the keys are walked from the last to the first
ValidateKeys_Reversed(value, schema, path, i) ==
    IF i > Len(schema.keys) THEN Ok(NONE)
    ELSE The({ IF ~later.ok THEN later
               ELSE IF schema.keys[i] \notin DOMAIN value.fields
               THEN Raise(Err("ValueError",
                              <<"Missing key ">> \o path \o <<schema.keys[i]>>))
               ELSE The({ _validate(v, schema.sub[schema.keys[i]],
                                    path \o <<schema.keys[i], ".">>) :
                          v \in {value.fields[schema.keys[i]]} }) :
               later \in {ValidateKeys_Reversed(value, schema, path, i + 1)} })

\* the loop over schema.items(), from its i-th key on: the first missing key
\* or the first sub-value that fails ends it
ValidateKeys(value, schema, path, i) ==
    IF i > Len(schema.keys) THEN Ok(NONE)
    ELSE IF schema.keys[i] \notin DOMAIN value.fields
    THEN Raise(Err("ValueError", <<"Missing key ">> \o path \o <<schema.keys[i]>>))
    ELSE The({ IF ~r.ok THEN r ELSE ValidateKeys(value, schema, path, i + 1) :
               r \in { _validate(v, schema.sub[schema.keys[i]],
                                 path \o <<schema.keys[i], ".">>) :
                       v \in {value.fields[schema.keys[i]]} } })

\* the loop over enumerate(value), from its i-th item on
ValidateItems(items, subschema, path, i) ==
    IF i > Len(items) THEN Ok(NONE)
    ELSE The({ IF ~r.ok THEN r ELSE ValidateItems(items, subschema, path, i + 1) :
               r \in { _validate(v, subschema, path \o <<IdxText(i - 1), ".">>) :
                       v \in {items[i]} } })

\* _validate(value, schema, path): Ok(NONE) or the exception raised
_validate(value, schema, path) ==
    CASE schema.n = "dict" ->
            IF value.k /= "dict"
            THEN Raise(Err("TypeError", OrValue(path) \o <<" must be an object">>))
            ELSE ValidateKeys(value, schema, path, 1)
      [] schema.n = "list" ->
            IF value.k /= "list"
            THEN Raise(Err("TypeError",
                           OrValue(RStrip(path)) \o <<" must be a list">>))
            ELSE IF Len(schema.elems) /= 1
            THEN Raise(Err("ValueError",
                           <<"schema list must contain a single element">>))
            ELSE ValidateItems(value.elems, schema.elems[1], path, 1)
      [] schema.n = "type" ->
            IF ~InstanceOf(value, schema.types[1])
            THEN Raise(Err("TypeError",
                           RStrip(path) \o <<" must be of type ">> \o schema.types))
            ELSE Ok(NONE)
      [] schema.n = "tuple" ->
            IF ~\E t \in 1..Len(schema.types) : InstanceOf(value, schema.types[t])
            THEN Raise(Err("TypeError",
                           RStrip(path) \o <<" must be of type ">> \o schema.types))
            ELSE Ok(NONE)
      [] schema.n = "callable" ->
            IF ~CallPredicate(schema.p, value)
            THEN Raise(Err("ValueError", RStrip(path) \o <<" has invalid value">>))
            ELSE Ok(NONE)
      [] OTHER -> Raise(Err("TypeError", <<"Unsupported schema element">>))

\* validate_json(data)
validate_json(data) == _validate(data, SCHEMA, << >>)

-----------------------------------------------------------------------------
(* Inputs of the validation calls                                          *)

VRendement == VList(<<VDict([x |-> VInt(0), y |-> VFloat(95)])>>)

\* a document that conforms to SCHEMA (with a key the schema does not name)
BaseDocument ==
    VDict(
      [idRun |-> VStr("run"),
       choix_optim |-> VStr("CoutEnergie"),
       synthese |-> VList(<<VStr("done")>>),
       configuration |->
         VDict([activationRendement |-> VStr("false"),
                axeOptimDegrade |-> VList(<<VInt(1), VInt(2)>>),
                diminutionSOC |-> VInt(5),
                pasDeTemps |-> VInt(15),
                maximumExecTemps |-> VInt(10),
                debutOptim |-> VDateTime("2024-12-16T23:59:59Z"),
                finOptim |-> VEmpty]),
       rapport |-> VDict([url |-> VStr("u"), resultUrl |-> VStr("r")]),
       sources |->
         VList(<<VDict(
           [id |-> VStr("S1"),
            libelle |-> VStr("source"),
            pMax |-> VList(<<VInt(1000)>>),
            tranches |->
              VList(<<VDict(
                [id |-> VStr("T1"),
                 cout |-> VInt(3),
                 dateDebut |-> VDate("2024-01-01"),
                 dateFin |-> VDate("2024-12-31"),
                 heureTranche |->
                   VList(<<VDict([debut |-> VInt(0), fin |-> VInt(24)])>>)])>>),
            transformateurs |->
              VList(<<VDict(
                [id |-> VStr("TR1"),
                 libelle |-> VStr("transfo"),
                 etat |-> VStr("OK"),
                 rendement |-> VRendement,
                 facteurPuissance |-> VFloat(1),
                 pMax |-> VInt(500),
                 chargeurs |->
                   VList(<<VDict(
                     [id |-> VStr("CH1"),
                      libelle |-> VStr("chargeur"),
                      etat |-> VStr("OK"),
                      pMax |-> VInt(150),
                      typeChargeur |-> VStr("M1"),
                      mutualisation |->
                        VDict([nombrePrises |-> VInt(1),
                               configsMutualisation |->
                                 VList(<<VDict([configMutualisation |->
                                                  VList(<<VInt(1)>>)])>>)]),
                      rendement |-> VRendement,
                      prises |->
                        VList(<<VDict([id |-> VStr("P1"),
                                       libelle |-> VStr("prise"),
                                       etat |-> VStr("OK"),
                                       typePrise |-> VStr("CCS COMBO2"),
                                       pMax |-> VInt(150)])>>)])>>)])>>)])>>),
       vehicules |->
         VList([i \in 1..2 |->
           VDict([id |-> VStr(<<"1", "2">>[i]),
                  capaciteBatterie |-> VInt(570),
                  idPrise |-> VStr("P1"),
                  libelle |-> VStr("{}"),
                  modeBoost |-> VInt(0),
                  typeChargeur |-> VList(<<VDict([modeleChargeur |-> VStr("M1")])>>),
                  typePrise |-> VStr("CCS COMBO2"),
                  profilBatterie |-> VList(<<VDict([x |-> VInt(0), y |-> VInt(100)])>>),
                  soc |-> VInt(80),
                  socCible |-> VInt(100),
                  dureeService |-> VInt(10),
                  finService |-> VDateTime("2024-12-19T08:00:00Z"),
                  debutService |-> VDate("2024-12-20")])])])

\* the position a path part names in a list, 0 for a part that is no index
IndexOf(part) ==
    CASE part = "[0]" -> 1 [] part = "[1]" -> 2 [] part = "[2]" -> 3 [] OTHER -> 0

RECURSIVE SetAt(_, _, _)
\* value with the value at a path replaced, unchanged when the path leads
\* nowhere
SetAt(value, path, new) ==
    IF path = << >> THEN new
    ELSE IF value.k = "dict" /\ Head(path) \in DOMAIN value.fields
    THEN VDict([value.fields EXCEPT ![Head(path)] = SetAt(@, Tail(path), new)])
    ELSE IF value.k = "list" /\ IndexOf(Head(path)) \in DOMAIN value.elems
    THEN VList([value.elems EXCEPT
                  ![IndexOf(Head(path))] = SetAt(@, Tail(path), new)])
    ELSE value

RECURSIVE DelAt(_, _)
\* value with the key at a path deleted
DelAt(value, path) ==
    IF value.k = "dict" /\ Head(path) \in DOMAIN value.fields
    THEN IF Len(path) = 1
         THEN VDict([key \in DOMAIN value.fields \ {Head(path)} |->
                        value.fields[key]])
         ELSE VDict([value.fields EXCEPT ![Head(path)] = DelAt(@, Tail(path))])
    ELSE IF value.k = "list" /\ Len(path) > 1
            /\ IndexOf(Head(path)) \in DOMAIN value.elems
    THEN VList([value.elems EXCEPT ![IndexOf(Head(path))] = DelAt(@, Tail(path))])
    ELSE value

Del(path) == [del |-> TRUE, path |-> path, new |-> VNone]
Set(path, new) == [del |-> FALSE, path |-> path, new |-> new]

\* changes made to the conformant document: keys removed, values of another
\* type or form, at the top, in the middle and at the leaves
Edits ==
    << Del(<<"idRun">>),
       Set(<<"idRun">>, VInt(3)),
       Del(<<"configuration", "finOptim">>),
       Set(<<"configuration", "debutOptim">>, VStr("soon")),
       Set(<<"configuration", "axeOptimDegrade", "[1]">>, VFloat(2)),
       Set(<<"configuration", "diminutionSOC">>, VBool(TRUE)),
       Set(<<"configuration">>, VList(<< >>)),
       Set(<<"sources">>, VNone),
       Set(<<"sources", "[0]", "tranches", "[0]", "dateDebut">>,
           VDateTime("2024-01-01T00:00:00")),
       Set(<<"sources", "[0]", "tranches", "[0]", "cout">>, VFloat(3)),
       Del(<<"sources", "[0]", "transformateurs", "[0]", "chargeurs", "[0]",
             "prises", "[0]", "pMax">>),
       Set(<<"vehicules", "[1]">>, VStr("v")),
       Set(<<"vehicules", "[0]", "capaciteBatterie">>, VFloat(570)),
       Set(<<"vehicules", "[1]", "debutService">>, VNone),
       Set(<<"vehicules">>, VList(<< >>)) >>

ApplyEdit(value, e) ==
    IF e.del THEN DelAt(value, e.path) ELSE SetAt(value, e.path, e.new)

RECURSIVE ApplyEdits(_, _, _)
\* the edits whose index is in S, applied in the order of Edits from i on
ApplyEdits(value, S, i) ==
    IF i > Len(Edits) THEN value
    ELSE IF i \in S
    THEN The({ ApplyEdits(v, S, i + 1) : v \in {ApplyEdit(value, Edits[i])} })
    ELSE ApplyEdits(value, S, i + 1)

MaxEdits == 2

RECURSIVE EditSets(_)
\* the sets of at most n edits
EditSets(n) ==
    IF n = 0 THEN {{}}
    ELSE EditSets(n - 1)
         \cup {S \cup {i} : S \in EditSets(n - 1), i \in 1..Len(Edits)}

Documents ==
    {ApplyEdits(BaseDocument, S, 1) : S \in EditSets(MaxEdits)}
    \cup {VList(<<BaseDocument>>)}

\* direct calls of the engine: schema nodes SCHEMA has none of, and nodes of
\* each kind on their own
NodeSchemas ==
    << SList(<<SInt, SStr>>), SList(<< >>), SList(<<SOther>>), SOther, SStr,
       SNumber, SPred("_is_iso_date"), SPred("_is_iso_datetime"),
       SList(<<SNumber>>), SDict(<<"x">>, [x |-> SInt]) >>

NodeValues ==
    << VInt(1), VFloat(1), VBool(FALSE), VNone, VStr("a"), VEmpty,
       VDate("2024-01-01"), VDateTime("2024-01-01T00:00:00Z"),
       VList(<< >>), VList(<<VInt(1), VStr("a")>>),
       VDict([x |-> VBool(TRUE), y |-> VNone]), VDict([y |-> VInt(1)]) >>

-----------------------------------------------------------------------------
(* The validator as a state machine: the caller holds its document in the  *)
(* heap, validates it, may validate it a second time, and lets it go.      *)

InitValidate == Init

ValidateJsonCall ==
    /\ pc = "idle"
    /\ \E data \in Documents :
       \E r \in {validate_json(data)} :
          /\ pc' = IF r.ok THEN "returned" ELSE "raised"
          /\ op' = "validate_json"
          /\ args' = [data |-> data, first |-> Nothing]
          /\ ret' = r.val
          /\ heap' = <<data>>
          /\ docAddr' = 1
          /\ calls' = 1
          /\ UNCHANGED <<tplAddr, files, steps>>

ValidateJsonAgain ==
    /\ pc \in {"returned", "raised"}
    /\ op = "validate_json"
    /\ calls = 1
    /\ \E r \in {validate_json(heap[docAddr])} :
          /\ pc' = IF r.ok THEN "returned" ELSE "raised"
          /\ ret' = r.val
          /\ args' = [args EXCEPT !.first = Some([pc |-> pc, ret |-> ret])]
          /\ calls' = 2
          /\ UNCHANGED <<op, heap, docAddr, tplAddr, files, steps>>

ValidateNodeCall ==
    /\ pc = "idle"
    /\ \E i \in DOMAIN NodeSchemas, j \in DOMAIN NodeValues :
       \E r \in {_validate(NodeValues[j], NodeSchemas[i], << >>)} :
          /\ pc' = IF r.ok THEN "returned" ELSE "raised"
          /\ op' = "_validate"
          /\ args' = [data |-> NodeValues[j], schema |-> NodeSchemas[i]]
          /\ ret' = r.val
          /\ heap' = <<NodeValues[j]>>
          /\ docAddr' = 1
          /\ calls' = 1
          /\ UNCHANGED <<tplAddr, files, steps>>

ReturnValidate ==
    /\ pc \in {"returned", "raised"}
    /\ pc' = "idle"
    /\ op' = "none"
    /\ args' = << >>
    /\ ret' = << >>
    /\ heap' = << >>
    /\ docAddr' = 0
    /\ calls' = 0
    /\ UNCHANGED <<tplAddr, files, steps>>

NextValidate ==
    \/ ValidateJsonCall
    \/ ValidateJsonAgain
    \/ ValidateNodeCall
    \/ ReturnValidate

SpecValidate == InitValidate /\ [][NextValidate]_vars

-----------------------------------------------------------------------------
(* C12: what the schema walk accepts                                       *)

Validated == op \in {"validate_json", "_validate"} /\ pc \in {"returned", "raised"}

SchemaUsed == IF op = "validate_json" THEN SCHEMA ELSE args.schema

RECURSIVE Accepts(_, _)
\* acceptance as the claim states it, node kind by node kind
Accepts(value, schema) ==
    CASE schema.n = "dict" ->
            /\ value.k = "dict"
            /\ \A i \in 1..Len(schema.keys) :
                  /\ schema.keys[i] \in DOMAIN value.fields
                  /\ \A v \in {value.fields[schema.keys[i]]} :
                        Accepts(v, schema.sub[schema.keys[i]])
      [] schema.n = "list" /\ Len(schema.elems) = 1 ->
            /\ value.k = "list"
            /\ \A i \in 1..Len(value.elems) :
                  \A v \in {value.elems[i]} : Accepts(v, schema.elems[1])
      [] schema.n \in {"type", "tuple"} ->
            \E t \in 1..Len(schema.types) : InstanceOf(value, schema.types[t])
      [] schema.n = "callable" -> CallPredicate(schema.p, value)
      [] OTHER -> FALSE

\* C12: _validate / validate_json returns, and returns None, exactly when
\* the value is accepted: a mapping node takes a mapping that has every
\* schema key with each keyed value accepted, a single-element list node a
\* list whose every element is accepted, a type or tuple node an instance of
\* (one of) the type(s), a predicate node a value the predicate is true of;
\* otherwise it raises TypeError or ValueError.
C12_SchemaAcceptance ==
    Validated =>
        /\ (pc = "returned") = Accepts(args.data, SchemaUsed)
        /\ pc = "returned" => ret = NONE
        /\ pc = "raised" => ret.exc \in {"TypeError", "ValueError"}

\* a document that lacks a key six levels down is refused
C12_Witness ==
    /\ op = "validate_json" /\ pc = "raised"
    /\ ret.exc = "ValueError"
    /\ ret.msg[1] = "Missing key "
    /\ Len(ret.msg) > 10
    /\ args.data = DelAt(BaseDocument, Edits[11].path)

-----------------------------------------------------------------------------
(* C13: a read-only, repeatable walk that stops at the first failure       *)

Violation(exc, field) == [exc |-> exc, field |-> field]

RECURSIVE Violations(_, _, _)
\* every field of a document that offends SCHEMA, depth first in the order
\* of the schema's keys, list elements by index; a field is the sequence of
\* the keys and indexes that lead to it
Violations(value, schema, field) ==
    CASE schema.n = "dict" ->
            IF value.k /= "dict" THEN <<Violation("TypeError", field)>>
            ELSE Concat([i \in 1..Len(schema.keys) |->
                    IF schema.keys[i] \notin DOMAIN value.fields
                    THEN <<Violation("ValueError", field \o <<schema.keys[i]>>)>>
                    ELSE The({ Violations(v, schema.sub[schema.keys[i]],
                                          field \o <<schema.keys[i]>>) :
                               v \in {value.fields[schema.keys[i]]} })])
      [] schema.n = "list" ->
            IF value.k /= "list" THEN <<Violation("TypeError", field)>>
            ELSE Concat([i \in 1..Len(value.elems) |->
                    The({ Violations(v, schema.elems[1],
                                     field \o <<IdxText(i - 1)>>) :
                          v \in {value.elems[i]} })])
      [] schema.n \in {"type", "tuple"} ->
            IF \E t \in 1..Len(schema.types) : InstanceOf(value, schema.types[t])
            THEN << >> ELSE <<Violation("TypeError", field)>>
      [] schema.n = "callable" ->
            IF CallPredicate(schema.p, value)
            THEN << >> ELSE <<Violation("ValueError", field)>>
      [] OTHER -> << >>

Verbs ==
    {" must be an object", " must be a list", " must be of type ",
     " has invalid value"}

IsNoDot(part) == part /= "."

\* the path a message names: what follows "Missing key ", or what precedes
\* the verb, without the dots
NamedPath(msg) ==
    IF msg[1] = "Missing key " THEN SelectSeq(Tail(msg), IsNoDot)
    ELSE LET k == CHOOSE i \in 1..Len(msg) :
                     msg[i] \in Verbs /\ \A j \in 1..(i - 1) : msg[j] \notin Verbs
         IN  SelectSeq(SubSeq(msg, 1, k - 1), IsNoDot)

\* the document itself is named "value"
FieldText(field) == IF field = << >> THEN <<"value">> ELSE field

FirstFailure(vs) ==
    /\ (pc = "raised") = (vs /= << >>)
    /\ pc = "raised" =>
          /\ ret.exc = vs[1].exc
          /\ NamedPath(ret.msg) = FieldText(vs[1].field)

\* C13: validate_json leaves the document as it was; with several offending
\* fields it raises one error, that of the first offending field in
\* depth-first schema-key order, whose message names the field's path; a
\* second run on the same document ends as the first did.
C13_ReadOnlyFirstFailure ==
    (op = "validate_json" /\ pc \in {"returned", "raised"}) =>
        /\ heap[docAddr] = args.data
        /\ \A vs \in {Violations(args.data, SCHEMA, << >>)} : FirstFailure(vs)
        /\ calls = 2 => args.first = Some([pc |-> pc, ret |-> ret])

\* a document with two offending fields, validated twice
C13_Witness ==
    /\ op = "validate_json" /\ pc = "raised" /\ calls = 2
    /\ Len(Violations(args.data, SCHEMA, << >>)) >= 2
    /\ Len(ret.msg) > 3

-----------------------------------------------------------------------------
(* The pipeline (src/main.py)                                              *)

\* A sheet row as the reader sees it: short when it has no cell in the mode
\* column; jourDep is <<h>> (text float() accepts, in half-days) or << >>;
\* newIdVeh and hDep are the sort columns, tVeh and dist are cells.
SheetRow(short, mode, jourDep, newIdVeh, hDep, dist) ==
    [short |-> short, mode |-> mode, jourDep |-> jourDep,
     newIdVeh |-> newIdVeh, hDep |-> hDep, tVeh |-> CStr("P"),
     dist |-> CStr(dist)]

\* the rows of a sequence at the positions kept, in order
SelectRows(rows, kept) ==
    LET Nth(k) == CHOOSE i \in kept : Cardinality({j \in kept : j < i}) = k - 1
    IN  [k \in 1..Cardinality(kept) |-> rows[Nth(k)]]

\* load_resultat_simu(path, mode=mode): the data rows that reach the mode
\* column and, when a mode is given, whose stripped mode equals it
load_resultat_simu(sheet, mode) ==
    SelectRows(sheet,
               {i \in 1..Len(sheet) :
                   /\ ~sheet[i].short
                   /\ mode /= NONE => Strip(sheet[i].mode) = mode})

\* a number given for --start or --end, in half-days
PNum(h) == [t |-> "num", v |-> [h |-> h]]

\* float(text) on the bound texts drawn, in half-days
FloatText(x) ==
    IF ~x.iso /\ x.raw = "45645.5" THEN Ok(91291) ELSE Raise("ValueError")

\* _parse_date(value): None, a number as an Excel serial, an ISO text, else a
\* text float() accepts as an Excel serial, else None
_parse_date(value) ==
    CASE value.t = "none" -> Nothing
      [] value.t = "num" -> Some(excel_number_to_datetime(value.v.h))
      [] parse_iso_datetime(value).ok -> Some(parse_iso_datetime(value).val)
      [] FloatText(value.v).ok ->
            Some(excel_number_to_datetime(FloatText(value.v).val))
      [] OTHER -> Nothing

\* _filter_by_jour_dep(records, start, end)
_filter_by_jour_dep(records, start, end) ==
    LET Keep(rec) ==
            /\ IsSome(rec.jourDep)
            /\ IsSome(start) =>
                  ~DtLess(excel_number_to_datetime(TheVal(rec.jourDep)),
                          TheVal(start))
            /\ IsSome(end) =>
                  ~DtLess(TheVal(end),
                          excel_number_to_datetime(TheVal(rec.jourDep)))
    IN  IF ~IsSome(start) /\ ~IsSome(end) THEN records
        ELSE SelectRows(records, {i \in 1..Len(records) : Keep(records[i])})

\* df.to_dict(orient="records") as map_records reads a row: the identifier
\* text, the next start as the text of its serial or nan, and soc_retour, a
\* float, by the integer that int() makes of it
ToRecord(row) ==
    [newIdVeh |-> CStr(row.newIdVeh), tVeh |-> row.tVeh, dist |-> row.dist]
      @@ (NEXT_COL :> IF IsSome(row[NEXT_COL])
                      THEN CSerial(TheVal(row[NEXT_COL])) ELSE CNaN)
      @@ (SOC_COL :> IF row[SOC_COL].nan THEN CNaN
                     ELSE CNum(row[SOC_COL].n \div row[SOC_COL].d))

\* the keyword arguments of the map_records call of main: the parsed bounds,
\* the simulation file read again without a mode, the other defaults of main
OptParam(o) == IF IsSome(o) THEN PDt(TheVal(o)) ELSE PNone
JourCells(sheet) ==
    LET rows == load_resultat_simu(sheet, NONE)
    IN  [i \in 1..Len(rows) |-> rows[i].jourDep]
MapperParams(a) ==
    [MainParams EXCEPT !.start_dt = OptParam(_parse_date(a.start)),
                       !.end_dt = OptParam(_parse_date(a.end)),
                       !.simu = JourCells(a.sheet),
                       !.infra = a.infra]

\* The value main returns is a dict (the document) or a list
PyDict(d) == [k |-> "dict", v |-> d]
PyList(q) == [k |-> "list", v |-> q]

\* json.dumps / json.loads on these values: a dict is written as an object, a
\* list as an array
json_dumps(x) ==
    [json |-> IF x.k = "dict" THEN "object" ELSE "array", body |-> x.v]
json_loads(text) ==
    [k |-> IF text.json = "object" THEN "dict" ELSE "list", v |-> text.body]

\* The disk: a path is a sequence of names; an entry is a directory or a file
\* with its text
Directory == [dir |-> TRUE, text |-> Nothing]
File(text) == [dir |-> FALSE, text |-> Some(text)]
Disk == (<<"out">> :> Directory)
is_dir(fs, path) == path \in DOMAIN fs /\ fs[path].dir
write_text(fs, path, text) ==
    [p \in DOMAIN fs \cup {path} |-> IF p = path THEN File(text) ELSE fs[p]]

\* output_path of main: output, or output / "result.json" for a directory
OutputPath(fs, output) ==
    IF is_dir(fs, output) THEN output \o <<"result.json">> ELSE output

\* -- inputs -----------------------------------------------------------------

MaxSheetRows == 3

SheetRows ==
    { SheetRow(FALSE, "E", Some(91290), "B", 91290, "10"),
      SheetRow(FALSE, "E", Some(91292), "A", 91292, "20"),
      SheetRow(FALSE, " E ", Some(91290), "A", 91290, "80"),
      SheetRow(FALSE, "T", Some(91286), "B", 91286, "2"),
      SheetRow(FALSE, "E", Nothing, "B", 91290, "1"),
      SheetRow(TRUE, "", Nothing, "A", 91288, "-10") }

\* sheets of distinct rows
Sheets ==
    UNION { { s \in [1..n -> SheetRows] :
                \A i, j \in 1..n : s[i] = s[j] => i = j } :
            n \in 0..MaxSheetRows }

\* --start and --end
BoundPairs ==
    { <<PNone, PNone>>,
      <<PNum(91290), PStr(IsoText(45646, 0, 0, TRUE))>>,
      <<PStr(RawText("45645.5")), PNone>>,
      <<PStr(BadText), PNum(91290)>> }

\* --output: none, an existing directory, a file in it
Outputs == {Nothing, Some(<<"out">>), Some(<<"out", "r.json">>)}

MainInfras == {NoInfra, InfraFile("json", "list", << >>)}

\* -- state machine ----------------------------------------------------------

InitMain == Init

MainStep(next, value, called) ==
    /\ pc' = next
    /\ ret' = value
    /\ steps' = steps \o called

\* records = utils.load_resultat_simu(resultat_path, mode=mode)
MainCall ==
    /\ pc = "idle"
    /\ \E sheet \in Sheets, mode \in {NONE, "E"}, b \in BoundPairs,
          output \in Outputs, infra \in MainInfras :
          /\ op' = "main"
          /\ args' = [sheet |-> sheet, mode |-> mode, start |-> b[1],
                      end |-> b[2], output |-> output, infra |-> infra]
          /\ files' = Disk
          /\ MainStep("loaded", load_resultat_simu(sheet, mode),
                      <<"load_resultat_simu">>)
    /\ UNCHANGED <<heap, tplAddr, docAddr, calls>>

\* the filter on jourDep, and the early return when nothing passes
MainFilter ==
    /\ pc = "loaded"
    /\ \E records \in {_filter_by_jour_dep(ret, _parse_date(args.start),
                                           _parse_date(args.end))} :
          IF records = << >>
          THEN MainStep("returned", PyList(<< >>), <<"_filter_by_jour_dep">>)
          ELSE MainStep("filtered", records, <<"_filter_by_jour_dep">>)
    /\ UNCHANGED <<op, args, heap, tplAddr, docAddr, calls, files>>

\* add_next_service_time, then compute_soc
MainEnrich ==
    /\ pc = "filtered"
    /\ \E df \in {add_next_service_time(ret)} :
          MainStep("enriched",
                   compute_soc(df, ConsoTable, Float(MainParams.soc_cible), 0,
                               CapacityTable),
                   <<"add_next_service_time", "compute_soc">>)
    /\ UNCHANGED <<op, args, heap, tplAddr, docAddr, calls, files>>

\* json_output = map_records(df.to_dict(orient="records"), ...)
MainMap ==
    /\ pc = "enriched"
    /\ \E draws \in DrawLists(args.infra, Len(ret)) :
       \E r \in {map_records([i \in 1..Len(ret) |-> ToRecord(ret[i])],
                             DEFAULT_TEMPLATE, MapperParams(args), draws)} :
          IF r.ok THEN MainStep("mapped", PyDict(r.val), <<"map_records">>)
          ELSE MainStep("raised", r.val, <<"map_records">>)
    /\ UNCHANGED <<op, args, heap, tplAddr, docAddr, calls, files>>

\* output_path.write_text(json.dumps(json_output, ...))
MainWrite ==
    /\ pc = "mapped"
    /\ IsSome(args.output)
    /\ files' = write_text(files, OutputPath(files, TheVal(args.output)),
                           json_dumps(ret))
    /\ MainStep("written", ret, <<"write_text">>)
    /\ UNCHANGED <<op, args, heap, tplAddr, docAddr, calls>>

\* return json_output
MainFinish ==
    /\ \/ pc = "written"
       \/ pc = "mapped" /\ ~IsSome(args.output)
    /\ pc' = "returned"
    /\ UNCHANGED <<op, args, ret, heap, tplAddr, docAddr, calls, files, steps>>

\* the caller takes the result; the next run starts afresh
MainDone ==
    /\ pc \in {"returned", "raised"}
    /\ pc' = "idle"
    /\ op' = "none"
    /\ args' = << >>
    /\ ret' = << >>
    /\ files' = << >>
    /\ steps' = << >>
    /\ UNCHANGED <<heap, tplAddr, docAddr, calls>>

NextMain ==
    \/ MainCall
    \/ MainFilter
    \/ MainEnrich
    \/ MainMap
    \/ MainWrite
    \/ MainFinish
    \/ MainDone

SpecMain == InitMain /\ [][NextMain]_vars

\* a run of main that was given all of its inputs
MainTypeOK ==
    /\ pc \in {"idle", "loaded", "filtered", "enriched", "mapped", "written",
               "returned", "raised"}
    /\ (pc = "returned") => ret.k \in {"dict", "list"}

\* -- properties ---------------------------------------------------------------

\* the records of the run that passed the mode and jourDep filters, as read
Passed ==
    _filter_by_jour_dep(load_resultat_simu(args.sheet, args.mode),
                        _parse_date(args.start), _parse_date(args.end))

\* main has returned a document
ReturnedDocument ==
    /\ op = "main"
    /\ pc = "returned"
    /\ ret.k = "dict"

\* dist is different in every row of a sheet, and dureeService is int(dist):
\* the rows behind the vehicle entries, in the order of the entries
RowTags(rows) == [i \in 1..Len(rows) |-> TextInt(rows[i].dist.v)]
EntryTags(doc) == [i \in 1..Len(doc.vehicules) |-> doc.vehicules[i].dureeService]
PositionRead(tag) == CHOOSE i \in 1..Len(Passed) : RowTags(Passed)[i] = tag

\* C17 as stated: the document of the full pipeline has one vehicule entry per
\* record that passed the mode and jourDep filters, in the order in which
\* those records were read.
C17_VehiclesInReadOrder ==
    ReturnedDocument => EntryTags(ret.v) = RowTags(Passed)

\* C17: the document of the full pipeline has exactly one vehicule entry per
\* record that passed the mode and jourDep filters, and the entries are in
\* ascending order of (vehicle identifier, departure), records with equal keys
\* in the order in which they were read.
C17_VehiclesInSortedOrder ==
    ReturnedDocument =>
        LET tags == EntryTags(ret.v)
        IN  /\ Len(tags) = Len(Passed)
            /\ {tags[i] : i \in DOMAIN tags} =
                  {RowTags(Passed)[i] : i \in 1..Len(Passed)}
            /\ \A i, j \in DOMAIN tags :
                  i < j =>
                     LET a == Passed[PositionRead(tags[i])]
                         b == Passed[PositionRead(tags[j])]
                     IN  /\ ~KeyLess(b, a)
                         /\ ~KeyLess(a, b) =>
                               PositionRead(tags[i]) < PositionRead(tags[j])

\* a run in which a row was filtered out and the rows that passed were not
\* read in sorted order
C17_Witness ==
    /\ ReturnedDocument
    /\ Len(Passed) = 2
    /\ Len(args.sheet) = 3
    /\ EntryTags(ret.v) /= RowTags(Passed)

\* a write of the document, or its return, has validate_json between
\* map_records and it
ValidatedAfterMapping ==
    \E i, j \in DOMAIN steps :
        /\ steps[i] = "map_records"
        /\ steps[j] = "validate_json"
        /\ i < j
        /\ \A k \in DOMAIN steps : steps[k] = "write_text" => j < k

\* C18: on every run of main that produces a document, validate_json is
\* executed after the mapping and before the document is written to the
\* output file or returned.
C18_ValidatedBeforeOutput ==
    (op = "main" /\ pc \in {"written", "returned"}) =>
        (ret.k = "dict" => ValidatedAfterMapping)

\* C19: when main returns and output is not None, the output file exists (it
\* is result.json inside output when output is an existing directory), its
\* JSON text parses to the value main returns, and that value is a dict.
C19_OutputFileHoldsReturnedDict ==
    (op = "main" /\ pc = "returned" /\ IsSome(args.output)) =>
        LET path == OutputPath(Disk, TheVal(args.output))
        IN  /\ path \in DOMAIN files
            /\ ~files[path].dir
            /\ json_loads(TheVal(files[path].text)) = ret
            /\ ret.k = "dict"

\* what holds of the output file: it is written exactly when a document is
\* returned
OutputFileOfDocument ==
    (op = "main" /\ pc = "returned" /\ IsSome(args.output)) =>
        LET path == OutputPath(Disk, TheVal(args.output))
        IN  IF ret.k = "dict"
            THEN /\ path \in DOMAIN files
                 /\ ~files[path].dir
                 /\ json_loads(TheVal(files[path].text)) = ret
            ELSE /\ files = Disk
                 /\ ret = PyList(<< >>)
                 /\ Passed = << >>

-----------------------------------------------------------------------------
(* Further properties of map_record and map_records (specification Spec)   *)

\* the record without its model field
WithoutModel(record) == [k \in DOMAIN record \ {"tVeh"} |-> record[k]]

\* the lookups of a returned map_record call give the table's value for
\* (projection, model) and the default for an absent key
LookupDefaults ==
    LET P == args.P
        key == <<P.projection, TVeh(args.record).val>>
        v == ret.vehicules[1]
    IN  /\ v.capaciteBatterie =
              (IF key \in DOMAIN P.capacities THEN P.capacities[key] ELSE 0)
        /\ key \notin DOMAIN P.powers => v.profilBatterie = P.profile
        /\ key \notin DOMAIN P.conso => v.libelle[10] = 0

\* C21: the lookups never raise: for a (projection, model) key absent from
\* the table the capacity and the consumption are 0 and the profile is left
\* unscaled, capaciteBatterie is the capacity of the key, and map_record does
\* not raise on account of the record's model field, whatever it holds.
C21_LookupsNeverRaise ==
    (op = "map_record") =>
        /\ pc = "returned" => LookupDefaults
        /\ pc = "raised" =>
              ~map_record(WithoutModel(args.record), DEFAULT_TEMPLATE, args.P,
                          args.draw).ok

\* what holds of the lookups: the defaults, on every call that returns
LookupDefaultsWhenReturned ==
    (op = "map_record" /\ pc = "returned") => LookupDefaults

\* a call that raises only because the model field is a number
ModelFieldRaises ==
    /\ op = "map_record" /\ pc = "raised" /\ ret = "AttributeError"
    /\ args.record.tVeh.t = "num"
    /\ map_record(WithoutModel(args.record), DEFAULT_TEMPLATE, args.P,
                  args.draw).ok

\* the input of vehicule.soc: soc_retour when the record has the key, else
\* soc when it has that key, else 0
SelectedSoc(record) ==
    IF SOC_COL \in DOMAIN record THEN record[SOC_COL]
    ELSE IF "soc" \in DOMAIN record THEN record["soc"]
    ELSE CNum(0)

\* the record without its SOC fields
WithoutSoc(record) == [k \in DOMAIN record \ {SOC_COL, "soc"} |-> record[k]]

\* C22: in map_record, vehicule.soc is the integer value of soc_retour when
\* the record has one, else of soc, else 0; when the value selected is not
\* numeric (None, NaN, text that is no number) it is 0, and no error is
\* raised on its account.
C22_SocFromRecord ==
    (op = "map_record") =>
        /\ pc = "returned" =>
              ret.vehicules[1].soc =
                 (IF IntOf(SelectedSoc(args.record)).ok
                  THEN IntOf(SelectedSoc(args.record)).val ELSE 0)
        /\ pc = "raised" =>
              ~map_record(WithoutSoc(args.record), DEFAULT_TEMPLATE, args.P,
                          args.draw).ok

\* a returned SOC that is NaN beside a pre-existing SOC of 20: the result is 0
C22_Witness ==
    /\ op = "map_record" /\ pc = "returned"
    /\ SOC_COL \in DOMAIN args.record
    /\ args.record[SOC_COL].t = "nan"
    /\ "soc" \in DOMAIN args.record
    /\ IntOf(args.record["soc"]).ok
    /\ IntOf(args.record["soc"]).val = 20
    /\ ret.vehicules[1].soc = 0

\* the object that vehicule.libelle encodes has the margins as HH:MM, the
\* entry's debutService and the rounded consumption of (projection, model)
LibelleFields(v, P, record) ==
    /\ v.libelle[1] = "numeroExploitation"
    /\ v.libelle[3] = "debutService"
    /\ v.libelle[4] = v.debutService
    /\ v.libelle[5] = "MargeSecurite"
    /\ v.libelle[6] = <<P.marge_securite \div 60, P.marge_securite % 60>>
    /\ v.libelle[7] = "MargePrechauffage"
    /\ v.libelle[8] = <<P.marge_prechauffage \div 60, P.marge_prechauffage % 60>>
    /\ v.libelle[9] = "Conso"
    /\ v.libelle[10] =
          (IF <<P.projection, TVeh(record).val>> \in DOMAIN P.conso
           THEN (P.conso[<<P.projection, TVeh(record).val>>] + 5) \div 10
           ELSE 0)

\* C23: in every document returned by map_record, the object encoded in
\* vehicule.libelle has numeroExploitation equal to the vehicle identifier,
\* debutService equal to the entry's debutService, the run's margins as
\* HH:MM and Conso the consumption of (projection, model) rounded to 2
\* decimals, 0 for an unknown key.
C23_LibelleContents ==
    (op = "map_record" /\ pc = "returned") =>
        /\ LibelleFields(ret.vehicules[1], args.P, args.record)
        /\ ret.vehicules[1].libelle[2] = ret.vehicules[1].id

\* what holds of numeroExploitation: the identifier when the record has one,
\* the text "None" beside an entry whose id is left empty when it has none
LibelleOfReturnedDocument ==
    (op = "map_record" /\ pc = "returned") =>
        /\ LibelleFields(ret.vehicules[1], args.P, args.record)
        /\ IF NewId(args.record) /= NONE
           THEN /\ ret.vehicules[1].libelle[2] = NewId(args.record)
                /\ ret.vehicules[1].id = NewId(args.record)
           ELSE /\ ret.vehicules[1].libelle[2] = "None"
                /\ ret.vehicules[1].id = ""

\* the integer part of a float that is no nan
IntegerPart(x) == IF x.n >= 0 THEN x.n \div x.d ELSE -((-x.n) \div x.d)

\* the distance of the record is a number for compute_soc
DistanceIsNumeric(record) ==
    /\ "dist" \in DOMAIN record
    /\ ToFloat(record["dist"]).ok
    /\ ~ToFloat(record["dist"]).val.nan

\* C24: in map_record, dureeService is the integer part of the record's
\* distance whenever compute_soc takes that distance as a number (a number
\* or a numeric text, with or without a fractional part), and the template's
\* 0 otherwise.
C24_DureeServiceFromDistance ==
    (op = "map_record" /\ pc = "returned") =>
        ret.vehicules[1].dureeService =
           (IF DistanceIsNumeric(args.record)
            THEN IntegerPart(ToFloat(args.record["dist"]).val) ELSE 0)

\* what holds of dureeService: int(dist) when int() takes the distance, and
\* 0 otherwise, a text with a fractional part included
DureeServiceOfIntegralDistance ==
    (op = "map_record" /\ pc = "returned") =>
        ret.vehicules[1].dureeService =
           (IF "dist" \in DOMAIN args.record /\ IntOf(args.record["dist"]).ok
            THEN IntOf(args.record["dist"]).val ELSE 0)

\* the window of a returned document, parsed
DebutOptimOf(doc) == parse_iso_datetime(PStr(doc.configuration.debutOptim)).val
FinOptimOf(doc) == parse_iso_datetime(PStr(doc.configuration.finOptim)).val

\* debutOptim is not earlier than the requested start
StartNotAdvanced ==
    (Returned("map_record") /\ args.P.start_dt.t /= "none") =>
        ~DtLess(DebutOptimOf(ret), RequestedStart(args.P))

\* debutOptim is not earlier than the floor date
StartNotBelowFloor ==
    (Returned("map_record") /\ args.P.start_dt.t /= "none") =>
        ~DtLess(DebutOptimOf(ret), CombineMin(FloorDay(args.P)))

\* finOptim is not later than the requested end
EndNotPostponed ==
    (Returned("map_record") /\ args.P.end_dt.t /= "none") =>
        ~DtLess(RequestedEnd(args.P), FinOptimOf(ret))

\* a requested window that validate_optim_dates accepts gives a window that
\* it accepts
ValidWindowKept ==
    (/\ Returned("map_record")
     /\ args.P.start_dt.t /= "none"
     /\ args.P.end_dt.t /= "none"
     /\ validate_optim_dates(args.P.start_dt, args.P.end_dt, args.P.simu).ok) =>
        validate_optim_dates(PStr(ret.configuration.debutOptim),
                             PStr(ret.configuration.finOptim), args.P.simu).ok

\* C25: the clamp of map_record is consistent with validate_optim_dates:
\* debutOptim is never earlier than the requested start nor than the floor
\* date, finOptim is never later than the requested end, and a requested
\* window that validate_optim_dates accepts gives a window it accepts too.
C25_ClampKeepsValidWindow ==
    /\ StartNotAdvanced
    /\ StartNotBelowFloor
    /\ EndNotPostponed
    /\ ValidWindowKept

\* a start half a second before the observed minimum is rounded onto it
RoundedOntoMinimum ==
    /\ Returned("map_record")
    /\ args.P.start_dt = PDt(Dt(45642, 86399, 500000))
    /\ args.P.end_dt = PStr(IsoText(45660, 0, 0, TRUE))
    /\ args.P.simu = <<Some(91292), Some(91286)>>
    /\ validate_optim_dates(args.P.start_dt, args.P.end_dt, args.P.simu).ok
    /\ ret.configuration.debutOptim = IsoText(45643, 0, 0, TRUE)
    /\ ~validate_optim_dates(PStr(ret.configuration.debutOptim),
                             PStr(ret.configuration.finOptim), args.P.simu).ok

-----------------------------------------------------------------------------
(* The documents of the mapper as validate_json sees them                  *)

\* a date-time text of the mapper, a plain text and a formatted text, with
\* the Python type and the form the validator looks at
TextValue(t) ==
    IF t.iso THEN VDateTime("iso")
    ELSE IF t.raw = "" THEN VEmpty ELSE VStr(t.raw)
StrValue(x) == IF x = "" THEN VEmpty ELSE VStr(x)
PartsValue(parts) == IF parts = << >> THEN VEmpty ELSE VStr("text")
IntList(q) == VList([i \in 1..Len(q) |-> VInt(q[i])])

\* a vehicle entry: the fields map_record assigns are the results of int(),
\* str(), json.dumps and isoformat_z
VehiculeValue(v) ==
    VDict([id |-> StrValue(v.id),
           capaciteBatterie |-> VInt(v.capaciteBatterie),
           idPrise |-> PartsValue(v.idPrise),
           libelle |-> PartsValue(v.libelle),
           modeBoost |-> VInt(v.modeBoost),
           typeChargeur |->
              VList([i \in 1..Len(v.typeChargeur) |->
                       VDict([modeleChargeur |->
                                StrValue(v.typeChargeur[i].modeleChargeur)])]),
           typePrise |-> StrValue(v.typePrise),
           profilBatterie |->
              VList([i \in 1..Len(v.profilBatterie) |->
                       VDict([x |-> VInt(v.profilBatterie[i].x),
                              y |-> VInt(v.profilBatterie[i].y)])]),
           soc |-> VInt(v.soc),
           socCible |-> VInt(v.socCible),
           dureeService |-> VInt(v.dureeService),
           finService |-> TextValue(v.finService),
           debutService |-> TextValue(v.debutService)])

ConfigurationValue(c) ==
    VDict([activationRendement |-> StrValue(c.activationRendement),
           axeOptimDegrade |-> IntList(c.axeOptimDegrade),
           diminutionSOC |-> VInt(c.diminutionSOC),
           pasDeTemps |-> VInt(c.pasDeTemps),
           maximumExecTemps |-> VInt(c.maximumExecTemps),
           debutOptim |-> TextValue(c.debutOptim),
           finOptim |-> TextValue(c.finOptim)])

\* a document without sources, or the empty dict of an empty aggregation
DocumentValue(doc) ==
    IF DOMAIN doc = {} THEN VDict(<< >>)
    ELSE VDict([idRun |-> StrValue(doc.idRun),
                choix_optim |-> StrValue(doc.choix_optim),
                synthese |-> VList(<< >>),
                configuration |-> ConfigurationValue(doc.configuration),
                rapport |-> VDict([url |-> StrValue(doc.rapport.url),
                                   resultUrl |-> StrValue(doc.rapport.resultUrl)]),
                sources |-> VList(<< >>),
                vehicules |-> VList([i \in 1..Len(doc.vehicules) |->
                                       VehiculeValue(doc.vehicules[i])])])

\* a call of the mapper without an infrastructure description has returned
ReturnedWithoutInfrastructure ==
    /\ op \in {"map_record", "map_records"}
    /\ pc = "returned"
    /\ ~args.P.infra.path

\* C26 as stated: every document that map_record or map_records returns
\* without an infrastructure description passes validate_json.
C26_EveryDocumentValidates ==
    ReturnedWithoutInfrastructure =>
        /\ DOMAIN ret /= {} => ret.sources = << >>
        /\ validate_json(DocumentValue(ret)).ok

\* C26: every document that map_record returns, or that map_records returns
\* for at least one record, without an infrastructure description passes
\* validate_json: every required key is there, every field has its declared
\* type, and the four date-time fields are accepted, trailing 'Z' included.
C26_DocumentsOfRecordsValidate ==
    (/\ ReturnedWithoutInfrastructure
     /\ op = "map_records" => args.records /= << >>) =>
        /\ ret.sources = << >>
        /\ validate_json(DocumentValue(ret)).ok

\* a batch of two whose entries carry formatted date-times
C26_Witness ==
    /\ ReturnedWithoutInfrastructure
    /\ op = "map_records"
    /\ Len(args.records) = 2
    /\ \E i \in 1..2 : ret.vehicules[i].finService.iso
    /\ \E i \in 1..2 : ret.vehicules[i].debutService.z
    /\ validate_json(DocumentValue(ret)).ok

-----------------------------------------------------------------------------
(* Further properties of the batch and of aggregation                      *)

\* the batch of a map_records call maps without an infrastructure
RecordsMapAlone ==
    map_records(args.records, DEFAULT_TEMPLATE,
                [args.P EXCEPT !.infra = NoInfra],
                [i \in 1..Len(args.records) |-> NoDraw]).ok

\* a map_records call on at least one record, with an infrastructure file
\* that loads as a mapping
BatchWithInfrastructure ==
    /\ op = "map_records"
    /\ args.P.infra.path
    /\ args.P.infra.content = "map"
    /\ args.records /= << >>
    /\ RecordsMapAlone

\* C27: map_records does not raise on account of an infrastructure that
\* loads as a mapping, however sparse its hierarchy (no or empty sources,
\* transformateurs, chargeurs, prises): it returns a document with one
\* vehicle per record.
C27_SparseInfrastructureTolerated ==
    BatchWithInfrastructure =>
        /\ pc = "returned"
        /\ Len(ret.vehicules) = Len(args.records)

\* what holds: the call raises exactly when the first source has no
\* transformer
SparseInfrastructureOutcome ==
    BatchWithInfrastructure =>
        LET src == Get(args.P.infra.v, "sources", << >>)
        IN  IF src /= << >> /\ Get(src[1], "transformateurs", << >>) = << >>
            THEN pc = "raised" /\ ret \in {"KeyError", "IndexError"}
            ELSE pc = "returned" /\ Len(ret.vehicules) = Len(args.records)

\* the chargers that aggregate_results reads in a document, or none
FirstChargers(d) == ItemChargers(d)

\* the document has its chargers where aggregate_results writes them, each
\* with an id of its own
ChargersIdentified(d) ==
    /\ d.sources /= << >>
    /\ Get(d.sources[1], "transformateurs", << >>) /= << >>
    /\ "chargeurs" \in DOMAIN d.sources[1]["transformateurs"][1]
    /\ d.sources[1]["transformateurs"][1]["chargeurs"] /= << >>
    /\ \A i, j \in 1..Len(FirstChargers(d)) :
          /\ Truthy(Get(FirstChargers(d)[i], "id", NONE))
          /\ Get(FirstChargers(d)[i], "id", NONE) =
                Get(FirstChargers(d)[j], "id", NONE) => i = j

\* C28: aggregating a single document of map_record gives that document:
\* aggregate_results([d]) returns a value equal to d, with every charger
\* definition of d, in order, whether or not d has an infrastructure and
\* whatever the ids of its chargers.
C28_SingleAggregationIsIdentity ==
    (op = "aggregate_results" /\ Len(args.results) = 1) =>
        /\ pc = "returned"
        /\ ret = args.results[1]

\* what holds: the identity for a document without sources or with
\* identified chargers
SingleAggregationOfIdentifiedChargers ==
    (/\ op = "aggregate_results"
     /\ Len(args.results) = 1
     /\ args.results[1].sources = << >> \/ ChargersIdentified(args.results[1])) =>
        /\ pc = "returned"
        /\ ret = args.results[1]

\* a document whose chargers are not all identified comes back with fewer
ChargersLost ==
    /\ op = "aggregate_results" /\ pc = "returned"
    /\ Len(args.results) = 1
    /\ Len(FirstChargers(args.results[1])) = 4
    /\ Len(FirstChargers(ret)) = 2

\* the records of the call and the entries of its document, paired
CallRecords == IF op = "map_record" THEN <<args.record>> ELSE args.records

\* C29: in every document returned by map_record or map_records, an entry
\* whose record has a non-empty vehicle identifier has a non-empty idPrise,
\* with or without an infrastructure description.
C29_IdentifiedVehicleHasPlug ==
    (op \in {"map_record", "map_records"} /\ pc = "returned") =>
        \A i \in 1..Len(CallRecords) :
            NewId(CallRecords[i]) /= NONE => ret.vehicules[i].idPrise /= << >>

\* the draw of the i-th record of the call
CallDraw(i) == IF op = "map_record" THEN args.draw ELSE args.draws[i]

\* the infrastructure of the call gives no plug id to the i-th record: it has
\* no charger with a plug, or the plug drawn has no id
NoPlugIdDrawn(i) ==
    LET chargers == PluggedChargers(InfraSources(LoadInfra(args.P.infra)).val)
    IN  \/ chargers = << >>
        \/ Get(Get(chargers[CallDraw(i).c], "prises", << >>)[CallDraw(i).p],
               "id", "") = ""

\* C29: in every document returned by map_record or map_records, an entry
\* whose record has a non-empty vehicle identifier has a non-empty idPrise
\* when no infrastructure description is loaded, and when one is loaded and
\* the plug drawn for it has an id; with an infrastructure that has no
\* charger with a plug, or whose drawn plug has no id, idPrise is empty.
C29_PlugWhenAvailable ==
    (op \in {"map_record", "map_records"} /\ pc = "returned") =>
        \A i \in 1..Len(CallRecords) :
            NewId(CallRecords[i]) /= NONE =>
               ((ret.vehicules[i].idPrise = << >>) <=>
                   (LoadInfra(args.P.infra).t /= "none" /\ NoPlugIdDrawn(i)))

\* a batch of two identified vehicles on an infrastructure one of whose
\* plugs has no id: one entry has a plug id, the other has none
C29_Witness ==
    /\ op = "map_records" /\ pc = "returned"
    /\ Len(args.records) = 2
    /\ \A i \in 1..2 : NewId(args.records[i]) /= NONE
    /\ args.P.infra.content = "map"
    /\ ret.vehicules[1].idPrise /= << >>
    /\ ret.vehicules[2].idPrise = << >>

-----------------------------------------------------------------------------
(* Further properties of compute_soc (specification SpecEnrich)            *)

\* 0 <= x <= target, which no nan satisfies
WithinTarget(x, target) ==
    /\ ~x.nan
    /\ ~FLess(x, Float(0))
    /\ ~FLess(target, x)

\* vehicule.soc as map_record derives it from the soc_retour of a row
DerivedSoc(row) ==
    Soc((SOC_COL :> IF row[SOC_COL].nan THEN CNaN
                    ELSE CNum(row[SOC_COL].n \div row[SOC_COL].d)))

\* C30: a service never raises the SOC: in what compute_soc returns, for a
\* non-negative consumption, capacity and target, every row has
\* 0 <= soc_after <= target whatever its distance, negative or unparsable
\* included, and the integer vehicule.soc derived from it is within the same
\* bounds.
C30_SocNeverRaised ==
    Returned("compute_soc") =>
        \A i \in 1..Len(ret) :
            /\ WithinTarget(ret[i][SOC_COL], args.soc_cible)
            /\ WithinTarget(Float(DerivedSoc(ret[i])), args.soc_cible)

\* what holds: the bounds for every distance that is not negative and is no
\* nan
SocOfForwardDistance ==
    Returned("compute_soc") =>
        \A i \in 1..Len(ret) :
            (\/ ~ToFloat(ret[i].dist).ok
             \/ (~ToFloat(ret[i].dist).val.nan
                 /\ ~FLess(ToFloat(ret[i].dist).val, Float(0)))) =>
                /\ WithinTarget(ret[i][SOC_COL], args.soc_cible)
                /\ WithinTarget(Float(DerivedSoc(ret[i])), args.soc_cible)

\* a negative distance gives a SOC above the target
SocAboveTarget ==
    /\ Returned("compute_soc")
    /\ args.soc_cible = Float(100)
    /\ \E i \in 1..Len(ret) :
          /\ ret[i].dist = CStr("-10")
          /\ ret[i][SOC_COL] = Float(101)
          /\ DerivedSoc(ret[i]) = 101

====
